---------------------------- MODULE Spec2Model ----------------------------
(***************************************************************************)
(* A model of trrackspace: the Rackspace identity client                   *)
(* (services/identity/client.py), the error mapping decorator (errors.py)  *)
(* and the Cloud Files data plane (services/cloudfiles/client.py,          *)
(* container.py, storage_object.py).                                       *)
(*                                                                         *)
(* The HTTP transport (trhttp) is the environment: every request draws its *)
(* outcome (a 2xx response with headers, an HttpError carrying a non-2xx   *)
(* status, or another exception) nondeterministically.                    *)
(*                                                                         *)
(* Python strings whose characters matter (header names, hex digests) are  *)
(* sequences of one-character strings, so that lower(), startswith() and   *)
(* slicing are computed, not assumed.                                      *)
(*                                                                         *)
(* The module holds several specifications over one set of variables; each *)
(* one exercises one part of the library and leaves the others idle:       *)
(*   SpecErr    to_error and the decorated operations                      *)
(*   SpecAuth   IdentityServiceClient.authenticate                         *)
(*   SpecList   Container.list_all_objects    (SpecListFair: with progress)*)
(*   SpecDel    Container.delete_all_objects  (SpecDelFair: with progress) *)
(*   SpecMeta   load and update_metadata of a Container / StorageObject    *)
(*   SpecWrite  StorageObject.load, delete_at and write, create_object     *)
(*   SpecContainer  Container.load with its CDN refresh, enable_cdn,       *)
(*              disable_cdn and the DELETE operations                      *)
(*   SpecAccount    CloudfilesClient.load and set_temp_url_key             *)
(*   SpecRead   StorageObject.read and chunks                              *)
(*   SpecArchive    Container.extract_archive                              *)
(*   SpecShared two callers of one Container: load and update_metadata     *)
(*   SpecMutate the mutating requests of a Container and their failures    *)
(*   SpecQuota  update_metadata, enable_quota, disable_quota and load      *)
(*              against a backend that keeps the container's metadata      *)
(***************************************************************************)
EXTENDS Integers, Sequences, FiniteSets, TLC

VARIABLES
    \* to_error: one decorated call in flight
    err_pc, err_site, err_frames, err_raised, err_thrown, err_exc, err_hops,
    \* IdentityServiceClient
    api_key, password, token, catalog, user, auth_log,
    \* Container.list_all_objects: one generator and its backend
    list_n, list_batch, list_pc, list_marker, list_objs, list_i, list_out, list_calls,
    \* Container.delete_all_objects: one call and its backend
    del_n, del_batch, del_exact, del_pc, del_names, del_listed, del_lists, del_calls,
    \* one Container or StorageObject handle and the last operation on it
    handle, last,
    \* the backend's metadata of the container, and two callers sharing the
    \* Container: one in load(), one in update_metadata()
    server, co

errVars == <<err_pc, err_site, err_frames, err_raised, err_thrown, err_exc, err_hops>>
authVars == <<api_key, password, token, catalog, user, auth_log>>
listVars == <<list_n, list_batch, list_pc, list_marker, list_objs, list_i, list_out, list_calls>>
delVars == <<del_n, del_batch, del_exact, del_pc, del_names, del_listed, del_lists, del_calls>>
entVars == <<handle, last>>
srvVars == <<server, co>>
vars == <<errVars, authVars, listVars, delVars, entVars, srvVars>>

exceptErr == <<authVars, listVars, delVars, entVars, srvVars>>
exceptAuth == <<errVars, listVars, delVars, entVars, srvVars>>
exceptList == <<errVars, authVars, delVars, entVars, srvVars>>
exceptDel == <<errVars, authVars, listVars, entVars, srvVars>>
exceptEnt == <<errVars, authVars, listVars, delVars, srvVars>>
exceptShared == <<errVars, authVars, listVars, delVars>>

(***************************************************************************)
(* Strings                                                                 *)
(***************************************************************************)
UpperChars == <<"A","B","C","D","E","F","G","H","I","J","K","L","M","N","O","P","Q","R","S","T","U","V","W","X","Y","Z">>
LowerChars == <<"a","b","c","d","e","f","g","h","i","j","k","l","m","n","o","p","q","r","s","t","u","v","w","x","y","z">>

LowerTable ==
    [c \in { UpperChars[i] : i \in 1..Len(UpperChars) } |->
        LowerChars[CHOOSE i \in 1..Len(UpperChars) : UpperChars[i] = c]]

UpperTable ==
    [c \in { LowerChars[i] : i \in 1..Len(LowerChars) } |->
        UpperChars[CHOOSE i \in 1..Len(LowerChars) : LowerChars[i] = c]]

\* str.lower() on one character
LowerChar(c) == IF c \in DOMAIN LowerTable THEN LowerTable[c] ELSE c

\* str.lower()
Lower(s) == [i \in 1..Len(s) |-> LowerChar(s[i])]

\* str.upper() on one character
UpperChar(c) == IF c \in DOMAIN UpperTable THEN UpperTable[c] ELSE c

\* str.upper()
Upper(s) == [i \in 1..Len(s) |-> UpperChar(s[i])]

\* a header name as the server writes it: Each-Word-Capitalised
TitleCase(s) ==
    [i \in 1..Len(s) |-> IF i = 1 \/ s[i-1] = "-" THEN UpperChar(s[i]) ELSE s[i]]

Digits == <<"0","1","2","3","4","5","6","7","8","9">>

\* int(value) of a string of decimal digits
RECURSIVE ParseInt(_)
ParseInt(s) ==
    IF s = <<>> THEN 0
    ELSE ParseInt(SubSeq(s, 1, Len(s) - 1)) * 10
         + ((CHOOSE d \in 1..10 : Digits[d] = s[Len(s)]) - 1)

\* str(n) of a natural number
RECURSIVE FormatInt(_)
FormatInt(n) ==
    IF n < 10 THEN <<Digits[n + 1]>>
    ELSE FormatInt(n \div 10) \o <<Digits[(n % 10) + 1]>>

\* "%d" % n
FormatD(n) == IF n < 0 THEN <<"-">> \o FormatInt(0 - n) ELSE FormatInt(n)

\* str.endswith(suffix)
EndsWith(s, suffix) ==
    /\ Len(s) >= Len(suffix)
    /\ SubSeq(s, Len(s) - Len(suffix) + 1, Len(s)) = suffix

\* str.startswith(prefix)
StartsWith(s, prefix) ==
    /\ Len(s) >= Len(prefix)
    /\ SubSeq(s, 1, Len(prefix)) = prefix

(***************************************************************************)
(* Exceptions.  Every exception is a record of the same shape; cause is    *)
(* <<>> (None) or <<e>>.                                                   *)
(***************************************************************************)
Exc(cls, message, status, reason, data, headers, cause) ==
    [cls |-> cls, message |-> message, status |-> status, reason |-> reason,
     response_data |-> data, response_headers |-> headers, cause |-> cause]

\* trhttp.errors.HttpError as the transport raises it for a non-2xx status
HttpError(status, reason) ==
    Exc("HttpError", <<"http">>, status, reason, <<"body", status>>, <<"headers", status>>, <<>>)

\* an exception that is neither an HttpError nor a RackspaceError
OtherError(cls, text) == Exc(cls, <<text>>, 0, "", <<>>, <<>>, <<>>)

RackspaceErrorClasses ==
    {"RackspaceError", "ResponseError", "NoSuchContainer", "NoSuchObject",
     "ContainerNotEmpty", "ExtractArchiveError"}

IsRackspaceError(e) == e.cls \in RackspaceErrorClasses

RackspaceError(message, cause) ==
    Exc("RackspaceError", message, 0, "", <<>>, <<>>, cause)

ResponseError(message, http_exception) ==
    Exc("ResponseError", message, http_exception.status, http_exception.reason,
        http_exception.response_data, http_exception.response_headers,
        <<http_exception>>)

NoSuchContainer(name) ==
    Exc("NoSuchContainer", <<"no such container", name>>, 0, "", <<>>, <<>>, <<>>)

NoSuchObject(name) ==
    Exc("NoSuchObject", <<"no such object", name>>, 0, "", <<>>, <<>>, <<>>)

ContainerNotEmpty ==
    Exc("ContainerNotEmpty", <<"container not empty">>, 0, "", <<>>, <<>>, <<>>)

\* ExtractArchiveError(result): errors = result.get("Errors"), kept in the
\* message as well
ExtractArchiveError(result) ==
    Exc("ExtractArchiveError", <<"extract archive failed", result["Errors"]>>,
        0, "", <<>>, <<>>, <<>>)

\* the message the decorator gives a function decorated without one
ErrorIn(func) == <<"error in", func>>

\* the except clauses of to_error's wrapped(), applied to an exception e
\* leaving the decorated function func
ToError_Rewrap(func, e) ==
    IF e.cls = "HttpError" THEN ResponseError(ErrorIn(func), e)
    ELSE RackspaceError(ErrorIn(func) \o e.message, <<e>>)
ToError(func, e) ==
    IF IsRackspaceError(e) THEN e
    ELSE IF e.cls = "HttpError" THEN ResponseError(ErrorIn(func), e)
    ELSE RackspaceError(ErrorIn(func) \o e.message, <<e>>)

\* an exception passing the to_error frames of a call chain, innermost first
RECURSIVE Propagate(_, _)
Propagate(frames, e) ==
    IF frames = <<>> THEN e
    ELSE Propagate(Tail(frames), ToError(Head(frames), e))

(***************************************************************************)
(* The decorated operations.  A request site is one send_request call of   *)
(* the library: op is the public operation the caller invoked, body the    *)
(* function whose body holds the call, frames the to_error frames that are *)
(* on the stack while the request runs (innermost first).  A generator     *)
(* function's own frame is not among them: calling the decorated function  *)
(* only creates the generator, and its body runs under next(), after       *)
(* wrapped() has returned.                                                 *)
(***************************************************************************)
Site(op, body, frames) == [op |-> op, body |-> body, frames |-> frames]

\* an operation whose body calls send_request directly
Plain(op) == Site(op, op, <<op>>)

ClientSites ==
    { Plain("CloudfilesClient.load"),
      Plain("CloudfilesClient.set_temp_url_key"),
      Plain("CloudfilesClient.create_container"),
      Site("CloudfilesClient.create_container", "Container.load",
           <<"Container.load", "CloudfilesClient.create_container">>),
      Site("CloudfilesClient.create_container", "Container.load.cdn",
           <<"Container.load", "CloudfilesClient.create_container">>),
      Plain("CloudfilesClient.list_containers"),
      Plain("CloudfilesClient.list_cdn_containers"),
      Site("CloudfilesClient.get_container", "Container.load",
           <<"Container.load", "CloudfilesClient.get_container">>),
      Site("CloudfilesClient.get_container", "Container.load.cdn",
           <<"Container.load", "CloudfilesClient.get_container">>),
      Plain("CloudfilesClient.delete_container") }

ContainerSites ==
    { Plain("Container.load"),
      Site("Container.load", "Container.load.cdn", <<"Container.load">>),
      Plain("Container.list"),
      Plain("Container.list_objects"),
      Site("Container.list_all_objects", "Container.list_objects",
           <<"Container.list_objects">>),
      Plain("Container.extract_archive"),
      Site("Container.get_object", "StorageObject.load",
           <<"StorageObject.load", "Container.get_object">>),
      Plain("Container.delete_object"),
      Plain("Container.delete_objects"),
      Site("Container.delete_all_objects", "Container.list",
           <<"Container.list", "Container.delete_all_objects">>),
      Site("Container.delete_all_objects", "Container.delete_objects",
           <<"Container.delete_objects", "Container.delete_all_objects">>),
      Plain("Container.delete"),
      Plain("Container.update_metadata"),
      Plain("Container.enable_object_versioning"),
      Plain("Container.disable_object_versioning"),
      Plain("Container.enable_log_retention"),
      Plain("Container.disable_log_retention"),
      Plain("Container.enable_quota"),
      Plain("Container.disable_quota"),
      Plain("Container.enable_cdn"),
      Plain("Container.disable_cdn"),
      Plain("Container.purge_from_cdn"),
      Plain("Container.enable_cors"),
      Plain("Container.disable_cors"),
      Plain("Container.enable_static_web"),
      Plain("Container.disable_static_web") }

StorageObjectSites ==
    { Plain("StorageObject.load"),
      Plain("StorageObject.read"),
      Site("StorageObject.chunks", "StorageObject.chunks", <<>>),
      Plain("StorageObject.write"),
      Plain("StorageObject.update_metadata"),
      Plain("StorageObject.copy_to"),
      Plain("StorageObject.copy_from"),
      Plain("StorageObject.purge_from_cdn"),
      Plain("StorageObject.delete_at"),
      Site("StorageObject.delete_after", "StorageObject.delete_at",
           <<"StorageObject.delete_at", "StorageObject.delete_after">>),
      Plain("StorageObject.delete") }

RequestSites == ClientSites \cup ContainerSites \cup StorageObjectSites

\* The try/except inside a function body around its send_request: what
\* leaves the body, <<>> when the exception is swallowed.
BodyExcept_NoMap(body, e) == <<e>>
BodyExcept_Swallow(body, e) == <<>>
BodyExcept(body, e) ==
    CASE body = "Container.load" ->
            IF e.cls = "HttpError" /\ e.status = 404
            THEN <<NoSuchContainer("name")>> ELSE <<e>>
      [] body = "Container.load.cdn" -> <<>>
      [] body = "StorageObject.load" ->
            IF e.cls = "HttpError" /\ e.status = 404
            THEN <<NoSuchObject("name")>> ELSE <<e>>
      [] body = "Container.delete_object" ->
            IF e.cls = "HttpError"
            THEN IF e.status = 404 THEN <<NoSuchObject("name")>> ELSE <<>>
            ELSE <<e>>
      [] body = "Container.delete" ->
            IF e.cls = "HttpError"
            THEN IF e.status = 404 THEN <<NoSuchContainer("name")>>
                 ELSE IF e.status = 409 THEN <<ContainerNotEmpty>>
                 ELSE <<>>
            ELSE <<e>>
      [] OTHER -> <<e>>

\* what a failing request of a site hands the caller: <<>> when the
\* operation returns normally, else <<the exception>>
SiteOutcome(site, e) ==
    LET left == BodyExcept(site.body, e)
    IN  IF left = <<>> THEN <<>> ELSE <<Propagate(site.frames, left[1])>>

(***************************************************************************)
(* What a request may raise: an HttpError for a non-2xx status, any other  *)
(* exception of the transport (a socket error, a bad response body), or a  *)
(* domain error of the authenticator, which send_request invokes.          *)
(***************************************************************************)
ErrorStatuses == {401, 404, 409, 500}

ReasonOf(status) ==
    CASE status = 401 -> "Unauthorized"
      [] status = 404 -> "Not Found"
      [] status = 409 -> "Conflict"
      [] OTHER -> "Internal Server Error"

HttpErrors == { HttpError(s, ReasonOf(s)) : s \in ErrorStatuses }

OtherErrors == { OtherError("IOError", "timed out"), OtherError("ValueError", "No JSON object could be decoded") }

AuthErrors ==
    { ResponseError(ErrorIn("authenticate_api_key"), HttpError(401, ReasonOf(401))),
      RackspaceError(ErrorIn("authenticate") \o <<"">>, <<OtherError("ValueError", "")>>) }

Raisable == HttpErrors \cup OtherErrors \cup AuthErrors

\* a decorated generator function: wrapped() returns the generator object
IsGenerator(op) == op \in {"Container.list_all_objects", "StorageObject.chunks"}

(***************************************************************************)
(* SpecErr: one call at a time.  Its request raises err_raised; err_thrown *)
(* is what leaves the body that issued the request, err_exc what has       *)
(* passed err_hops to_error frames so far; at err_pc = "raised" err_exc    *)
(* has reached the caller.                                                 *)
(***************************************************************************)
NoSite == Site("", "", <<>>)

ErrIdle ==
    /\ err_pc = "idle"
    /\ err_site = NoSite
    /\ err_frames = <<>>
    /\ err_raised = <<>>
    /\ err_thrown = <<>>
    /\ err_exc = <<>>
    /\ err_hops = 0

\* the request of the site raises e: the body's own try/except, then the
\* frames that are on the stack
Raise(site, e) ==
    /\ err_site' = site
    /\ err_raised' = <<e>>
    /\ err_thrown' = BodyExcept(site.body, e)
    /\ err_exc' = BodyExcept(site.body, e)
    /\ err_frames' = IF BodyExcept(site.body, e) = <<>> THEN <<>> ELSE site.frames
    /\ err_hops' = 0
    /\ err_pc' = IF BodyExcept(site.body, e) = <<>> THEN "returned" ELSE "unwind"

\* the caller invokes site.op, an ordinary function, and the request of the
\* site raises e
ErrCall(site, e) ==
    /\ err_pc = "idle"
    /\ ~IsGenerator(site.op)
    /\ Raise(site, e)

\* the caller invokes a generator function: wrapped() runs func(), which
\* returns the generator without running its body, and returns it
ErrCreate(site) ==
    /\ err_pc = "idle"
    /\ IsGenerator(site.op)
    /\ err_pc' = "generator"
    /\ err_site' = site
    /\ UNCHANGED <<err_frames, err_raised, err_thrown, err_exc, err_hops>>

\* the caller iterates: next() runs the generator's body, whose request
\* raises e
ErrIterate(e) ==
    /\ err_pc = "generator"
    /\ Raise(err_site, e)

\* the exception leaves one decorated function: wrapped()'s except clauses
ErrUnwind ==
    /\ err_pc = "unwind"
    /\ err_frames # <<>>
    /\ err_exc' = <<ToError(Head(err_frames), err_exc[1])>>
    /\ err_frames' = Tail(err_frames)
    /\ err_hops' = err_hops + 1
    /\ UNCHANGED <<err_pc, err_site, err_raised, err_thrown>>

\* no frame is left: the exception reaches the caller
ErrReach ==
    /\ err_pc = "unwind"
    /\ err_frames = <<>>
    /\ err_pc' = "raised"
    /\ UNCHANGED <<err_site, err_frames, err_raised, err_thrown, err_exc, err_hops>>

\* the caller goes on to its next call
ErrDone ==
    /\ err_pc \in {"raised", "returned"}
    /\ err_pc' = "idle"
    /\ err_site' = NoSite
    /\ err_frames' = <<>>
    /\ err_raised' = <<>>
    /\ err_thrown' = <<>>
    /\ err_exc' = <<>>
    /\ err_hops' = 0

(***************************************************************************)
(* IdentityServiceClient.  api_key and password say which credentials are  *)
(* configured (not None).  token is the token id, 0 the empty id of a new  *)
(* Token(); catalog and user name the response they were built from, 0 the *)
(* defaults of the constructor.  auth_log records every authenticate call. *)
(***************************************************************************)
MaxAuthCalls == 3
MaxTokens == 2

AuthIdle ==
    /\ api_key = FALSE
    /\ password = FALSE
    /\ token = 0
    /\ catalog = 0
    /\ user = 0
    /\ auth_log = <<>>

\* what the identity endpoint answers to POST /tokens
AuthResponses ==
    { [kind |-> "http_error", status |-> s, id |-> 0] : s \in {401, 500} }
    \cup { [kind |-> "bad_body", status |-> 200, id |-> 0],
           [kind |-> "no_access", status |-> 200, id |-> 0] }
    \cup { [kind |-> "access", status |-> 200, id |-> t] : t \in 1..MaxTokens }

\* `if not self.token.id or force`
NeedsRequest_Always(tok, force) == TRUE
NeedsRequest(tok, force) == tok = 0 \/ force

\* the credential path authenticate takes: api key first, then password
CredentialPath_PasswordFirst(has_api_key, has_password) ==
    IF has_password THEN "password"
    ELSE IF has_api_key THEN "api_key"
    ELSE "none"

CredentialPath(has_api_key, has_password) ==
    IF has_api_key THEN "api_key"
    ELSE IF has_password THEN "password"
    ELSE "none"

\* authenticate_api_key / authenticate_password: one POST /tokens; what the
\* call raises into authenticate, <<>> when it returns the parsed body
CredentialRequest(path, resp) ==
    LET func == IF path = "api_key" THEN "authenticate_api_key" ELSE "authenticate_password"
    IN  CASE resp.kind = "http_error" ->
                <<ToError(func, HttpError(resp.status, ReasonOf(resp.status)))>>
          [] resp.kind = "bad_body" ->
                <<ToError(func, OtherError("ValueError", "No JSON object could be decoded"))>>
          [] OTHER -> <<>>

\* one authenticate call: its argument, the token id at entry, the POSTs it
\* issued and what the one it issued answered, what it raised or the
\* X-Auth-Token it returned, and catalog, user and token before and after
AuthEntry(force, requests, path, answer, raised, header) ==
    [force |-> force, pre |-> token, requests |-> requests, path |-> path,
     answer |-> answer, raised |-> raised, header |-> header,
     before |-> <<catalog, user, token>>, after |-> <<catalog', user', token'>>]

\* IdentityServiceClient.authenticate(rest_client, force)
Authenticate(force, resp) ==
    /\ Len(auth_log) < MaxAuthCalls
    /\ UNCHANGED <<api_key, password>>
    /\ IF ~NeedsRequest(token, force)
       THEN /\ UNCHANGED <<token, catalog, user>>
            /\ auth_log' = Append(auth_log, AuthEntry(force, 0, "none", "none", <<>>, token))
       ELSE LET path == CredentialPath(api_key, password)
            IN  IF path = "none"
                THEN \* raise ValueError()
                     /\ UNCHANGED <<token, catalog, user>>
                     /\ auth_log' = Append(auth_log, AuthEntry(force, 0, path, "none",
                            <<ToError("authenticate", OtherError("ValueError", ""))>>, 0))
                ELSE LET raised == CredentialRequest(path, resp)
                     IN  IF raised # <<>>
                         THEN /\ UNCHANGED <<token, catalog, user>>
                              /\ auth_log' = Append(auth_log, AuthEntry(force, 1, path, resp.kind,
                                     <<ToError("authenticate", raised[1])>>, 0))
                         ELSE IF resp.kind = "access"
                         THEN /\ catalog' = resp.id
                              /\ user' = resp.id
                              /\ token' = resp.id
                              /\ auth_log' = Append(auth_log, AuthEntry(force, 1, path, resp.kind, <<>>, resp.id))
                         ELSE \* no `access` in the body: nothing is replaced
                              /\ UNCHANGED <<token, catalog, user>>
                              /\ auth_log' = Append(auth_log, AuthEntry(force, 1, path, resp.kind, <<>>, token))

(***************************************************************************)
(* Container.list_all_objects.  The backend holds list_n objects, named    *)
(* 1..list_n in its listing order; marker 0 is None.  The generator is at  *)
(* "request" (about to call list_objects), "yield" (inside the for loop    *)
(* over the batch), "done" (the loop was left by break) or "failed"        *)
(* (list_objects raised).                                                  *)
(***************************************************************************)
MaxObjects == 5
MaxBatch == 3

ListIdle ==
    /\ list_n = 0
    /\ list_batch = 1
    /\ list_pc = "idle"
    /\ list_marker = 0
    /\ list_objs = <<>>
    /\ list_i = 0
    /\ list_out = <<>>
    /\ list_calls = <<>>

\* the container's listing: one info dict per object, ordered by name
Listing(n) == [k \in 1..n |-> [name |-> k]]

Min(a, b) == IF a < b THEN a ELSE b

\* GET container?format=json: list_objects sends limit and marker when they
\* are truthy; the backend answers the entries after the marker, at most
\* limit of them
ListObjects(listing, limit, marker) ==
    LET after == IF marker # 0
                 THEN SelectSeq(listing, LAMBDA o : o.name > marker)
                 ELSE listing
    IN  IF limit # 0 THEN SubSeq(after, 1, Min(limit, Len(after))) ELSE after

\* `if len(objects) < batch_size: break`
ShortBatch_OrEqual(objects, batch_size) == Len(objects) <= batch_size
ShortBatch(objects, batch_size) == Len(objects) < batch_size

\* `marker = objects[-1]["name"]`
NextMarker_First(objects) == objects[1].name
NextMarker(objects) == objects[Len(objects)].name

\* objects = self.list_objects(limit=batch_size, marker=marker, ...)
ListRequest ==
    /\ list_pc = "request"
    /\ LET objects == ListObjects(Listing(list_n), list_batch, list_marker)
       IN  /\ list_objs' = objects
           /\ list_calls' = Append(list_calls,
                  [marker |-> list_marker, limit |-> list_batch, count |-> Len(objects),
                   last |-> IF objects = <<>> THEN 0 ELSE objects[Len(objects)].name])
    /\ list_i' = 1
    /\ list_pc' = "yield"
    /\ UNCHANGED <<list_n, list_batch, list_marker, list_out>>

\* list_objects raises (a ResponseError or RackspaceError): the generator ends
ListFail ==
    /\ list_pc = "request"
    /\ list_pc' = "failed"
    /\ list_calls' = Append(list_calls,
           [marker |-> list_marker, limit |-> list_batch, count |-> 0, last |-> 0])
    /\ UNCHANGED <<list_n, list_batch, list_marker, list_objs, list_i, list_out>>

\* `for object in objects: yield object`
ListYield ==
    /\ list_pc = "yield"
    /\ list_i <= Len(list_objs)
    /\ list_out' = Append(list_out, list_objs[list_i])
    /\ list_i' = list_i + 1
    /\ UNCHANGED <<list_n, list_batch, list_pc, list_marker, list_objs, list_calls>>

\* after the for loop: break on a short batch, else advance the marker
ListBatchEnd ==
    /\ list_pc = "yield"
    /\ list_i > Len(list_objs)
    /\ IF ShortBatch(list_objs, list_batch)
       THEN /\ list_pc' = "done"
            /\ UNCHANGED list_marker
       ELSE /\ list_marker' = NextMarker(list_objs)
            /\ list_pc' = "request"
    /\ UNCHANGED <<list_n, list_batch, list_objs, list_i, list_out, list_calls>>

(***************************************************************************)
(* Container.delete_all_objects.  The backend holds the objects named in   *)
(* del_names (del_n of them at the start).  del_exact says that a bulk     *)
(* delete removes exactly the names it is given; otherwise it may leave    *)
(* any of them in place and still answer 2xx.  del_lists logs the size of  *)
(* every listing, del_calls the names of every bulk delete; the model      *)
(* follows the loop for at most MaxRounds listings.                        *)
(***************************************************************************)
MaxRounds == 6

DelIdle ==
    /\ del_n = 0
    /\ del_batch = 1
    /\ del_exact = TRUE
    /\ del_pc = "idle"
    /\ del_names = {}
    /\ del_listed = <<>>
    /\ del_lists = <<>>
    /\ del_calls = <<>>

\* the names of a set in listing order
RECURSIVE Sorted(_)
Sorted(S) ==
    IF S = {} THEN <<>>
    ELSE LET m == CHOOSE x \in S : \A y \in S : x <= y
         IN  <<m>> \o Sorted(S \ {m})

\* GET container with limit: Container.list() returns the first names
ListNames(names, limit) ==
    LET all == Sorted(names)
    IN  IF limit # 0 THEN SubSeq(all, 1, Min(limit, Len(all))) ELSE all

Range(f) == { f[i] : i \in DOMAIN f }

\* `if len(object_names):`
HasNames_Always(object_names) == TRUE
HasNames(object_names) == Len(object_names) # 0

\* the record of the requests keeps the first MaxRounds of them
Logged(log, entry) == IF Len(log) < MaxRounds THEN Append(log, entry) ELSE log

\* object_names = self.list(limit=batch_size)
DelList ==
    /\ del_pc = "list"
    /\ del_listed' = ListNames(del_names, del_batch)
    /\ del_lists' = Logged(del_lists, Len(ListNames(del_names, del_batch)))
    /\ del_pc' = "delete"
    /\ UNCHANGED <<del_n, del_batch, del_exact, del_names, del_calls>>

\* `if len(object_names): self.delete_objects(object_names)`, the bulk
\* delete answering 2xx
DelDelete ==
    /\ del_pc = "delete"
    /\ IF HasNames(del_listed)
       THEN /\ del_calls' = Logged(del_calls, del_listed)
            /\ \E removed \in SUBSET Range(del_listed) :
                  /\ del_exact => removed = Range(del_listed)
                  /\ del_names' = del_names \ removed
       ELSE UNCHANGED <<del_calls, del_names>>
    /\ del_pc' = "check"
    /\ UNCHANGED <<del_n, del_batch, del_exact, del_listed, del_lists>>

\* list() or delete_objects() raises: the error leaves delete_all_objects
DelFail ==
    /\ del_pc \in {"list", "delete"}
    /\ del_pc = "delete" => HasNames(del_listed)
    /\ del_pc' = "failed"
    /\ UNCHANGED <<del_n, del_batch, del_exact, del_names, del_listed, del_lists, del_calls>>

\* `if len(object_names) < batch_size: break`
LastBatch_Never(object_names, batch_size) == FALSE
LastBatch(object_names, batch_size) == Len(object_names) < batch_size

DelCheck ==
    /\ del_pc = "check"
    /\ del_pc' = IF LastBatch(del_listed, del_batch) THEN "done" ELSE "list"
    /\ UNCHANGED <<del_n, del_batch, del_exact, del_names, del_listed, del_lists, del_calls>>

(***************************************************************************)
(* Header names and values, as strings of characters                      *)
(***************************************************************************)
ContainerMetaPrefix == <<"x","-","c","o","n","t","a","i","n","e","r","-","m","e","t","a","-">>
ContainerRemovePrefix == <<"x","-","r","e","m","o","v","e","-","c","o","n","t","a","i","n","e","r","-","m","e","t","a","-">>
ObjectMetaPrefix == <<"x","-","o","b","j","e","c","t","-","m","e","t","a","-">>
ObjectRemovePrefix == <<"x","-","r","e","m","o","v","e","-","o","b","j","e","c","t","-","m","e","t","a","-">>
RemoveMarker == <<"x","-","r","e","m","o","v","e","-">>
XContainerObjectCount == <<"x","-","c","o","n","t","a","i","n","e","r","-","o","b","j","e","c","t","-","c","o","u","n","t">>
XContainerBytesUsed == <<"x","-","c","o","n","t","a","i","n","e","r","-","b","y","t","e","s","-","u","s","e","d">>
XCdnEnabled == <<"x","-","c","d","n","-","e","n","a","b","l","e","d">>
XCdnUri == <<"x","-","c","d","n","-","u","r","i">>
XCdnSslUri == <<"x","-","c","d","n","-","s","s","l","-","u","r","i">>
XCdnStreamingUri == <<"x","-","c","d","n","-","s","t","r","e","a","m","i","n","g","-","u","r","i">>
XTtl == <<"x","-","t","t","l">>
XLogRetention == <<"x","-","l","o","g","-","r","e","t","e","n","t","i","o","n">>
XObjectManifeset == <<"x","-","o","b","j","e","c","t","-","m","a","n","i","f","e","s","e","t">>
ContentTypeKey == <<"c","o","n","t","e","n","t","-","t","y","p","e">>
ContentLengthKey == <<"c","o","n","t","e","n","t","-","l","e","n","g","t","h">>
LastModifiedKey == <<"l","a","s","t","-","m","o","d","i","f","i","e","d">>
ETagKey == <<"e","t","a","g">>
XDeleteAt == <<"x","-","d","e","l","e","t","e","-","a","t">>
TrueStr == <<"T","r","u","e">>
FalseStr == <<"F","a","l","s","e">>
OctetStream == <<"a","p","p","l","i","c","a","t","i","o","n","/","o","c","t","e","t","-","s","t","r","e","a","m">>
TextPlain == <<"t","e","x","t","/","p","l","a","i","n">>
AccountMetaPrefix == <<"x","-","a","c","c","o","u","n","t","-","m","e","t","a","-">>
XAccountObjectCount == <<"x","-","a","c","c","o","u","n","t","-","o","b","j","e","c","t","-","c","o","u","n","t">>
XAccountBytesUsed == <<"x","-","a","c","c","o","u","n","t","-","b","y","t","e","s","-","u","s","e","d">>
XAccountContainerCount == <<"x","-","a","c","c","o","u","n","t","-","c","o","n","t","a","i","n","e","r","-","c","o","u","n","t">>
TempUrlKey == <<"x","-","a","c","c","o","u","n","t","-","m","e","t","a","-","t","e","m","p","-","u","r","l","-","k","e","y">>
QuotaBytesKey == <<"x","-","c","o","n","t","a","i","n","e","r","-","m","e","t","a","-","q","u","o","t","a","-","b","y","t","e","s">>
QuotaCountKey == <<"x","-","c","o","n","t","a","i","n","e","r","-","m","e","t","a","-","q","u","o","t","a","-","c","o","u","n","t">>
BogusKey == <<"b","o","g","u","s","-","k","e","y">>

(***************************************************************************)
(* Headers are sequences of <<name, value>> pairs; a dict of headers or of *)
(* metadata is a function from names to values, {} being <<>>.             *)
(***************************************************************************)
\* the headers with `key = header[0].lower()` for a name
LowerNames(headers) == [i \in 1..Len(headers) |-> <<Lower(headers[i][1]), headers[i][2]>>]

\* the value the loop over the headers leaves for the (lower-case) name:
\* the last header whose lowered name equals it, else what was there
HeaderValue(lowered, name, default) ==
    LET hits == { i \in 1..Len(lowered) : lowered[i][1] = name }
    IN  IF hits = {} THEN default
        ELSE lowered[CHOOSE i \in hits : \A j \in hits : j <= i][2]

HasHeader(lowered, name) == \E i \in 1..Len(lowered) : lowered[i][1] = name

\* `self.metadata = {}` and, per header, `self.metadata[key.lower()] = value`
\* for the names that, lowered, start with the prefix
MetadataFromHeaders(lowered, prefix) ==
    LET meta == { n \in { lowered[i][1] : i \in 1..Len(lowered) } : StartsWith(n, prefix) }
    IN  [n \in meta |-> HeaderValue(lowered, n, <<>>)]

\* dict.pop(key, None)
Pop(d, key) == [k \in (DOMAIN d) \ {key} |-> d[k]]

\* d[key] = value
Put(d, key, value) == [k \in (DOMAIN d) \cup {key} |-> IF k = key THEN value ELSE d[k]]

\* dict.update(other), and the effect of assigning other's items one by one
Update(d, other) ==
    [k \in (DOMAIN d) \cup (DOMAIN other) |-> IF k \in DOMAIN other THEN other[k] ELSE d[k]]

MetaPrefix(kind) == IF kind = "container" THEN ContainerMetaPrefix ELSE ObjectMetaPrefix
RemovePrefix(kind) == IF kind = "container" THEN ContainerRemovePrefix ELSE ObjectRemovePrefix

\* valid_prefixes of update_metadata
ValidPrefixes(kind) == {MetaPrefix(kind), RemovePrefix(kind)}

\* the validation loop of update_metadata: every key, lowered, starts with
\* one of the valid prefixes (else: raise ValueError)
ValidMetadata_SomeKey(kind, metadata) ==
    \E key \in DOMAIN metadata :
        \E prefix \in ValidPrefixes(kind) : StartsWith(Lower(key), prefix)
ValidMetadata(kind, metadata) ==
    \A key \in DOMAIN metadata :
        \E prefix \in ValidPrefixes(kind) : StartsWith(Lower(key), prefix)

\* one turn of the `#update metadata` loop
UpdateItem_NoStrip(cached, key, value) ==
    IF StartsWith(Lower(key), RemoveMarker)
    THEN Pop(cached, key)
    ELSE Put(cached, key, value)
UpdateItem(cached, key, value) ==
    IF StartsWith(Lower(key), RemoveMarker)
    THEN Pop(cached, SubSeq(key, 1, 2) \o SubSeq(key, 10, Len(key)))
    ELSE Put(cached, key, value)

\* the `#update metadata` loop over metadata.items(), taken in the order
\* the dict happens to iterate
RECURSIVE UpdateItems(_, _, _)
UpdateItems(cached, metadata, order) ==
    IF order = <<>> THEN cached
    ELSE UpdateItems(UpdateItem(cached, Head(order), metadata[Head(order)]),
                     metadata, Tail(order))

\* the orders a dict with these keys may iterate in
Orders(keys) ==
    { o \in [1..Cardinality(keys) -> keys] : \A k \in keys : \E i \in DOMAIN o : o[i] = k }

(***************************************************************************)
(* The handle.  One record holds the fields of a Container or of a         *)
(* StorageObject (kind says which; "none" before the caller holds one);    *)
(* the fields of the other class keep their defaults.  None is <<>> for a  *)
(* string and for an optional number <<n>>.                                *)
(***************************************************************************)
NoHandle ==
    [kind |-> "none", metadata |-> <<>>,
     count |-> 0, size |-> 0, cdn_enabled |-> FALSE,
     cdn_uri |-> <<>>, cdn_ssl_uri |-> <<>>, cdn_streaming_uri |-> <<>>,
     cdn_ttl |-> <<>>, cdn_log_retention |-> <<>>,
     exists |-> FALSE, content_type |-> <<>>, content_length |-> 0,
     last_modified |-> <<>>, etag |-> <<>>, delete_at_timestamp |-> <<>>,
     manifest |-> <<>>,
     object_count |-> 0, bytes_used |-> 0, container_count |-> 0]

\* CloudfilesClient.__init__ before its load(): kind "client"
NewClient == [NoHandle EXCEPT !.kind = "client"]

\* Container.__init__ before its load()
NewContainer(cdn_enabled) ==
    [NoHandle EXCEPT !.kind = "container", !.cdn_enabled = cdn_enabled]

\* StorageObject.__init__ before its load()
NewStorageObject(exists, delete_at_timestamp) ==
    [NoHandle EXCEPT !.kind = "object", !.exists = exists,
                     !.content_type = OctetStream,
                     !.delete_at_timestamp = delete_at_timestamp]

\* a response: raised is <<>> and headers the response's headers, or raised
\* is <<the exception send_request raised>>
Ok(headers) == [raised |-> <<>>, headers |-> headers]
Failed(e) == [raised |-> <<e>>, headers |-> <<>>]
Unused == [raised |-> <<>>, headers |-> <<>>]

\* the outcome of an operation: the handle after it, the exception it
\* raised into the caller (<<>>: it returned) and the requests it issued
Outcome(h, raised, requests) == [h |-> h, raised |-> raised, requests |-> requests]

SiteOf(op, body) == CHOOSE site \in RequestSites : site.op = op /\ site.body = body

\* the plain HEAD part of Container.load
ContainerHeaders_Merge(h, response_headers) ==
    LET headers == LowerNames(response_headers) IN
    [h EXCEPT !.metadata = [k \in (DOMAIN h.metadata)
                                   \cup DOMAIN MetadataFromHeaders(headers, ContainerMetaPrefix) |->
                               IF k \in DOMAIN MetadataFromHeaders(headers, ContainerMetaPrefix)
                               THEN MetadataFromHeaders(headers, ContainerMetaPrefix)[k]
                               ELSE h.metadata[k]]]

ContainerHeaders(h, response_headers) ==
    LET headers == LowerNames(response_headers) IN
    [h EXCEPT !.metadata = MetadataFromHeaders(headers, ContainerMetaPrefix),
              !.count = IF HasHeader(headers, XContainerObjectCount)
                        THEN ParseInt(HeaderValue(headers, XContainerObjectCount, <<>>))
                        ELSE h.count,
              !.size = IF HasHeader(headers, XContainerBytesUsed)
                       THEN ParseInt(HeaderValue(headers, XContainerBytesUsed, <<>>))
                       ELSE h.size]

\* the CDN HEAD part of Container.load
CdnHeaders(h, response_headers) ==
    LET headers == LowerNames(response_headers) IN
    [h EXCEPT !.cdn_enabled = IF HasHeader(headers, XCdnEnabled)
                              THEN HeaderValue(headers, XCdnEnabled, <<>>) = TrueStr
                              ELSE h.cdn_enabled,
              !.cdn_uri = HeaderValue(headers, XCdnUri, h.cdn_uri),
              !.cdn_ssl_uri = HeaderValue(headers, XCdnSslUri, h.cdn_ssl_uri),
              !.cdn_streaming_uri = HeaderValue(headers, XCdnStreamingUri, h.cdn_streaming_uri),
              !.cdn_ttl = IF HasHeader(headers, XTtl)
                          THEN <<ParseInt(HeaderValue(headers, XTtl, <<>>))>>
                          ELSE h.cdn_ttl,
              !.cdn_log_retention =
                          IF HasHeader(headers, XLogRetention)
                          THEN <<HeaderValue(headers, XLogRetention, <<>>) = TrueStr>>
                          ELSE h.cdn_log_retention]

\* `if self.cdn_enabled:` before the CDN HEAD
CdnRefresh_Always(h) == TRUE
CdnRefresh_HasUri(h) == h.cdn_enabled \/ h.cdn_uri # <<>>
CdnRefresh(h) == h.cdn_enabled

\* the properties cdn_uri, cdn_ssl_uri and cdn_streaming_uri of a Container,
\* the fields cdn_uri, cdn_ssl_uri and cdn_streaming_uri of the handle being
\* the cached _cdn_uri, _cdn_ssl_uri and _cdn_streaming_uri
CdnUri_Cached(h) == h.cdn_uri
CdnUri(h) == IF h.cdn_enabled THEN h.cdn_uri ELSE <<>>
CdnSslUri(h) == IF h.cdn_enabled THEN h.cdn_ssl_uri ELSE <<>>
CdnStreamingUri(h) == IF h.cdn_enabled THEN h.cdn_streaming_uri ELSE <<>>

\* the header loop of enable_cdn
EnableCdnHeaders(h, response_headers) ==
    LET headers == LowerNames(response_headers) IN
    [h EXCEPT !.cdn_uri = HeaderValue(headers, XCdnUri, h.cdn_uri),
              !.cdn_ssl_uri = HeaderValue(headers, XCdnSslUri, h.cdn_ssl_uri),
              !.cdn_streaming_uri = HeaderValue(headers, XCdnStreamingUri, h.cdn_streaming_uri),
              !.cdn_ttl = IF HasHeader(headers, XTtl)
                          THEN <<ParseInt(HeaderValue(headers, XTtl, <<>>))>>
                          ELSE h.cdn_ttl]

\* Container.enable_cdn(ttl)
EnableCdn_Eager(h, ttl, resp) ==
    IF resp.raised # <<>>
    THEN Outcome([h EXCEPT !.cdn_enabled = TRUE, !.cdn_ttl = <<ttl>>],
                 SiteOutcome(Plain("Container.enable_cdn"), resp.raised[1]), <<"CDN PUT">>)
    ELSE Outcome(EnableCdnHeaders([h EXCEPT !.cdn_enabled = TRUE, !.cdn_ttl = <<ttl>>],
                                  resp.headers),
                 <<>>, <<"CDN PUT">>)

EnableCdn(h, ttl, resp) ==
    IF resp.raised # <<>>
    THEN Outcome(h, SiteOutcome(Plain("Container.enable_cdn"), resp.raised[1]), <<"CDN PUT">>)
    ELSE Outcome(EnableCdnHeaders([h EXCEPT !.cdn_enabled = TRUE, !.cdn_ttl = <<ttl>>],
                                  resp.headers),
                 <<>>, <<"CDN PUT">>)

\* Container.disable_cdn()
DisableCdn(h, resp) ==
    IF resp.raised # <<>>
    THEN Outcome(h, SiteOutcome(Plain("Container.disable_cdn"), resp.raised[1]), <<"CDN PUT">>)
    ELSE Outcome([h EXCEPT !.cdn_enabled = FALSE], <<>>, <<"CDN PUT">>)

\* the headers dict of enable_quota: <<>> is None, and 0 is as falsy
QuotaHeaders(max_bytes, max_object_count) ==
    LET bytes == max_bytes # <<>> /\ max_bytes[1] # 0
        count == max_object_count # <<>> /\ max_object_count[1] # 0
    IN  [k \in (IF bytes THEN {QuotaBytesKey} ELSE {}) \cup
                (IF count THEN {QuotaCountKey} ELSE {}) |->
            IF k = QuotaBytesKey THEN FormatInt(max_bytes[1])
            ELSE FormatInt(max_object_count[1])]

\* the headers dict of disable_quota
DisableQuotaHeaders ==
    [k \in {RemoveMarker \o SubSeq(QuotaBytesKey, 3, Len(QuotaBytesKey)),
            RemoveMarker \o SubSeq(QuotaCountKey, 3, Len(QuotaCountKey))} |-> TrueStr]

\* Container.enable_quota(max_bytes, max_object_count): the PUT is issued
\* only with a header to send
EnableQuota(h, max_bytes, max_object_count, resp) ==
    LET headers == QuotaHeaders(max_bytes, max_object_count) IN
    IF DOMAIN headers = {}
    THEN Outcome(h, <<>>, <<>>)
    ELSE IF resp.raised # <<>>
    THEN Outcome(h, SiteOutcome(Plain("Container.enable_quota"), resp.raised[1]), <<"PUT">>)
    ELSE Outcome([h EXCEPT !.metadata = Update(h.metadata, headers)], <<>>, <<"PUT">>)

\* Container.disable_quota(): nothing is written to the cache
DisableQuota(h, resp) ==
    IF resp.raised # <<>>
    THEN Outcome(h, SiteOutcome(Plain("Container.disable_quota"), resp.raised[1]), <<"PUT">>)
    ELSE Outcome(h, <<>>, <<"PUT">>)

\* Container.load(), called by op (load itself, or get_container through
\* the constructor): resp answers the HEAD on the container, cdn the HEAD
\* on the CDN endpoint, which is issued only when cdn_enabled is set
ContainerLoad(op, h, resp, cdn) ==
    IF resp.raised # <<>>
    THEN Outcome(h, SiteOutcome(SiteOf(op, "Container.load"), resp.raised[1]), <<"HEAD">>)
    ELSE LET h1 == ContainerHeaders(h, resp.headers)
         IN  IF ~CdnRefresh(h)
             THEN Outcome(h1, <<>>, <<"HEAD">>)
             ELSE IF cdn.raised # <<>>
             THEN Outcome([h1 EXCEPT !.cdn_enabled = FALSE],
                          SiteOutcome(SiteOf(op, "Container.load.cdn"), cdn.raised[1]),
                          <<"HEAD", "CDN HEAD">>)
             ELSE Outcome(CdnHeaders(h1, cdn.headers), <<>>, <<"HEAD", "CDN HEAD">>)

\* the header loop of CloudfilesClient.load: self.metadata is assigned
\* into, never reset
AccountHeaders(h, response_headers) ==
    LET headers == LowerNames(response_headers) IN
    [h EXCEPT !.metadata = Update(h.metadata, MetadataFromHeaders(headers, AccountMetaPrefix)),
              !.object_count = IF HasHeader(headers, XAccountObjectCount)
                               THEN ParseInt(HeaderValue(headers, XAccountObjectCount, <<>>))
                               ELSE h.object_count,
              !.bytes_used = IF HasHeader(headers, XAccountBytesUsed)
                             THEN ParseInt(HeaderValue(headers, XAccountBytesUsed, <<>>))
                             ELSE h.bytes_used,
              !.container_count = IF HasHeader(headers, XAccountContainerCount)
                                  THEN ParseInt(HeaderValue(headers, XAccountContainerCount, <<>>))
                                  ELSE h.container_count]

\* CloudfilesClient.load()
ClientLoad(h, resp) ==
    IF resp.raised # <<>>
    THEN Outcome(h, SiteOutcome(Plain("CloudfilesClient.load"), resp.raised[1]), <<"HEAD">>)
    ELSE Outcome(AccountHeaders(h, resp.headers), <<>>, <<"HEAD">>)

\* CloudfilesClient.set_temp_url_key(key)
SetTempUrlKey(h, key, resp) ==
    IF resp.raised # <<>>
    THEN Outcome(h, SiteOutcome(Plain("CloudfilesClient.set_temp_url_key"), resp.raised[1]),
                 <<"POST">>)
    ELSE Outcome([h EXCEPT !.metadata = Update(h.metadata, [k \in {TempUrlKey} |-> key])],
                 <<>>, <<"POST">>)

\* the header loop of StorageObject.load
ObjectHeaders(h, response_headers) ==
    LET headers == LowerNames(response_headers) IN
    [h EXCEPT !.metadata = MetadataFromHeaders(headers, ObjectMetaPrefix),
              !.manifest = HeaderValue(headers, XObjectManifeset, h.manifest),
              !.content_type = HeaderValue(headers, ContentTypeKey, h.content_type),
              !.content_length = IF HasHeader(headers, ContentLengthKey)
                                 THEN ParseInt(HeaderValue(headers, ContentLengthKey, <<>>))
                                 ELSE h.content_length,
              !.last_modified = HeaderValue(headers, LastModifiedKey, h.last_modified),
              !.etag = HeaderValue(headers, ETagKey, h.etag),
              !.delete_at_timestamp =
                                 IF HasHeader(headers, XDeleteAt)
                                 THEN <<ParseInt(HeaderValue(headers, XDeleteAt, <<>>))>>
                                 ELSE h.delete_at_timestamp]

\* StorageObject.load(), called by op (load itself, or get_object through
\* the constructor)
ObjectLoad(op, h, resp) ==
    IF resp.raised # <<>>
    THEN Outcome(h, SiteOutcome(SiteOf(op, "StorageObject.load"), resp.raised[1]), <<"HEAD">>)
    ELSE Outcome(ObjectHeaders(h, resp.headers), <<>>, <<"HEAD">>)

\* Container.update_metadata / StorageObject.update_metadata
UpdateMetadata(op, h, metadata, order, resp) ==
    IF ~ValidMetadata(h.kind, metadata)
    THEN Outcome(h, <<ToError(op, OtherError("ValueError", "invalid key"))>>, <<>>)
    ELSE IF resp.raised # <<>>
    THEN Outcome(h, SiteOutcome(Plain(op), resp.raised[1]), <<"POST">>)
    ELSE Outcome([h EXCEPT !.metadata = UpdateItems(h.metadata, metadata, order)],
                 <<>>, <<"POST">>)

(***************************************************************************)
(* StorageObject.write and delete_at                                       *)
(***************************************************************************)
MaxData == 2

\* the data written: strings of at most MaxData (zero) bytes
Data == { [i \in 1..n |-> 0] : n \in 0..MaxData }

\* data.last_hash.hexdigest(): lower-case hex digits, one digest per string
Digest(data) == <<"e">> \o [i \in 1..Len(data) |-> IF data[i] = 0 THEN "0" ELSE "f"]

\* `if self.delete_at_timestamp:`
Truthy(timestamp) == timestamp # <<>> /\ timestamp[1] # 0

\* the test of the ETag loop that raises RuntimeError("Bad hash")
BadHash_Never(verify, value, data) == FALSE
BadHash(verify, value, data) == verify /\ Lower(value) # Digest(data)

\* the loop of write() over the response's headers: the handle after it and
\* whether it raised
RECURSIVE WriteHeaders(_, _, _, _)
WriteHeaders(h, headers, verify, data) ==
    IF headers = <<>> THEN [h |-> h, bad |-> FALSE]
    ELSE IF Lower(Head(headers)[1]) = ETagKey
    THEN IF BadHash(verify, Head(headers)[2], data)
         THEN [h |-> h, bad |-> TRUE]
         ELSE WriteHeaders([h EXCEPT !.etag = Head(headers)[2]], Tail(headers), verify, data)
    ELSE WriteHeaders(h, Tail(headers), verify, data)

\* StorageObject.write(data, verify=verify)
Write(h, data, verify, resp) ==
    LET op == "StorageObject.write" IN
    IF Truthy(h.delete_at_timestamp)
    THEN Outcome(h, <<ToError(op, OtherError("NameError", "global name 'header' is not defined"))>>, <<>>)
    ELSE IF resp.raised # <<>>
    THEN Outcome(h, SiteOutcome(Plain(op), resp.raised[1]), <<"PUT">>)
    ELSE LET w == WriteHeaders(h, resp.headers, verify, data)
         IN  IF w.bad
             THEN Outcome(w.h, <<ToError(op, OtherError("RuntimeError", "Bad hash"))>>, <<"PUT">>)
             ELSE Outcome([w.h EXCEPT !.content_length = Len(data)], <<>>, <<"PUT">>)

\* StorageObject.delete_at(timestamp)
DeleteAt(h, timestamp, resp) ==
    IF resp.raised # <<>>
    THEN Outcome(h, SiteOutcome(Plain("StorageObject.delete_at"), resp.raised[1]), <<"POST">>)
    ELSE Outcome([h EXCEPT !.delete_at_timestamp = timestamp], <<>>, <<"POST">>)

\* extract_archive: the suffixes in the order the loop tries them, and the
\* type the loop finds for a path, <<>> when it finds none
ArchiveSuffixes == <<<<".","t","a","r">>, <<".","t","a","r",".","g","z">>, <<".","t","a","r",".","b","z">>>>

InferType_Any(path) == <<ArchiveSuffixes[1]>>

InferType(path) ==
    LET matching == { i \in 1..Len(ArchiveSuffixes) : EndsWith(Lower(path), ArchiveSuffixes[i]) }
    IN  IF matching = {} THEN <<>>
        ELSE <<ArchiveSuffixes[CHOOSE i \in matching : \A j \in matching : i <= j]>>

\* dict.get(key): <<>> is None
Get(d, key) == IF key \in DOMAIN d THEN d[key] ELSE <<>>

\* the outcome of an operation that returns a value
OutcomeWith(h, raised, requests, params, result) ==
    [h |-> h, raised |-> raised, requests |-> requests, params |-> params, result |-> result]

\* Container.extract_archive(archive_path, type): type <<>> is None;
\* opened says whether open(archive_path) finds the file; body is what the
\* response carries, json telling whether json.loads accepts it
ExtractArchive(h, archive_path, type, opened, resp, body) ==
    LET op == "Container.extract_archive"
        inferred == IF type = <<>> THEN InferType(archive_path) ELSE type
    IN  IF inferred = <<>>
        THEN OutcomeWith(h, <<ToError(op, OtherError("ValueError", "unsupported archive"))>>,
                         <<>>, <<>>, <<>>)
        ELSE LET params == [k \in {"extract-archive"} |-> inferred[1]] IN
        IF ~opened
        THEN OutcomeWith(h, <<ToError(op, OtherError("IOError", "No such file or directory"))>>,
                         <<>>, <<>>, <<>>)
        ELSE IF resp.raised # <<>>
        THEN OutcomeWith(h, SiteOutcome(Plain(op), resp.raised[1]), <<"PUT">>, params, <<>>)
        ELSE IF ~body.json
        THEN OutcomeWith(h, <<ToError(op, OtherError("ValueError",
                                 "No JSON object could be decoded"))>>, <<"PUT">>, params, <<>>)
        ELSE IF Get(body.value, "Errors") # <<>>
        THEN OutcomeWith(h, <<ToError(op, ExtractArchiveError(body.value))>>,
                         <<"PUT">>, params, <<>>)
        ELSE OutcomeWith(h, <<>>, <<"PUT">>, params, <<body.value>>)

\* the headers dict read() and chunks() build from size and offset; size
\* <<>> is None
BytesEq == <<"b", "y", "t", "e", "s", "=">>

RangeHeaders_Exclusive(size, offset) ==
    IF size # <<>> /\ size[1] # 0
    THEN [k \in {"Range"} |-> BytesEq \o FormatD(offset) \o <<"-">> \o FormatD(offset + size[1])]
    ELSE IF offset > 0
    THEN [k \in {"Range"} |-> BytesEq \o FormatD(offset) \o <<"-">>]
    ELSE IF offset < 0
    THEN [k \in {"Range"} |-> BytesEq \o FormatD(offset)]
    ELSE <<>>

RangeHeaders(size, offset) ==
    IF size # <<>> /\ size[1] # 0
    THEN [k \in {"Range"} |-> BytesEq \o FormatD(offset) \o <<"-">> \o FormatD(offset + size[1] - 1)]
    ELSE IF offset > 0
    THEN [k \in {"Range"} |-> BytesEq \o FormatD(offset) \o <<"-">>]
    ELSE IF offset < 0
    THEN [k \in {"Range"} |-> BytesEq \o FormatD(offset)]
    ELSE <<>>

\* StorageObject.read(size, offset)
Read(h, size, offset, resp) ==
    IF resp.raised # <<>>
    THEN Outcome(h, SiteOutcome(Plain("StorageObject.read"), resp.raised[1]), <<"GET">>)
    ELSE Outcome(h, <<>>, <<"GET">>)

\* the body of the generator StorageObject.chunks(chunk_size, size, offset),
\* run by the first next(): what the request raises leaves the generator
\* as it is, the decorator having returned already
ChunksBody(h, size, offset, resp) ==
    IF resp.raised # <<>>
    THEN Outcome(h, SiteOutcome(SiteOf("StorageObject.chunks", "StorageObject.chunks"),
                                resp.raised[1]), <<"GET">>)
    ELSE Outcome(h, <<>>, <<"GET">>)

(***************************************************************************)
(* The backend's answers                                                   *)
(***************************************************************************)
MaxArgKeys == 2

RECURSIVE SeqOfSet(_)
SeqOfSet(S) ==
    IF S = {} THEN <<>>
    ELSE LET x == CHOOSE x \in S : TRUE IN <<x>> \o SeqOfSet(S \ {x})

\* the metadata the backend may hold for an entity, names in lower case
ServerMetadata(kind) ==
    UNION { [S -> {<<"u">>}] : S \in SUBSET {MetaPrefix(kind) \o <<"a">>, MetaPrefix(kind) \o <<"b">>} }

\* the backend writes header names Each-Word-Capitalised
MetaHeaders(meta) ==
    LET keys == SeqOfSet(DOMAIN meta)
    IN  [i \in 1..Len(keys) |-> <<TitleCase(keys[i]), meta[keys[i]]>>]

ContainerHead(meta) ==
    <<<<TitleCase(XContainerObjectCount), FormatInt(3)>>,
      <<TitleCase(XContainerBytesUsed), FormatInt(12)>>>> \o MetaHeaders(meta)

CdnHead(enabled) ==
    <<<<TitleCase(XCdnEnabled), IF enabled THEN TrueStr ELSE FalseStr>>,
      <<TitleCase(XCdnUri), <<"h","t","t","p",":","/","/","c","d","n">>>>,
      <<TitleCase(XCdnSslUri), <<"h","t","t","p","s",":","/","/","s","s","l">>>>,
      <<TitleCase(XCdnStreamingUri), <<"h","t","t","p",":","/","/","s","t","r","e","a","m">>>>,
      <<TitleCase(XTtl), FormatInt(72)>>,
      <<TitleCase(XLogRetention), FalseStr>>>>

ObjectHead(data, delete_at, meta) ==
    <<<<TitleCase(ContentTypeKey), TextPlain>>,
      <<TitleCase(ContentLengthKey), FormatInt(Len(data))>>,
      <<TitleCase(LastModifiedKey), <<"t","o","d","a","y">>>>,
      <<TitleCase(ETagKey), Digest(data)>>>>
    \o (IF delete_at = <<>> THEN <<>>
        ELSE <<<<TitleCase(XDeleteAt), FormatInt(delete_at[1])>>>>)
    \o MetaHeaders(meta)

\* the ETag a PUT of data may come back with: the digest of the bytes, the
\* same digest in upper-case hex, or the digest of other bytes (of what a
\* backend stored that received one byte more)
PutEtags(data) == {Digest(data), Upper(Digest(data)), Digest(Append(data, 0))}

PutHead(etag) == <<<<TitleCase(ContentLengthKey), FormatInt(0)>>, <<TitleCase(ETagKey), etag>>>>

\* failures of a request in these specifications: of a HEAD, and of the
\* other requests
EntityErrors == HttpErrors \cup {OtherError("IOError", "timed out")}
WriteErrors == {HttpError(500, ReasonOf(500)), OtherError("IOError", "timed out")}

\* the maps update_metadata may be given: at most MaxArgKeys of these keys
ArgKeys(kind) ==
    { MetaPrefix(kind) \o <<"a">>, TitleCase(MetaPrefix(kind) \o <<"a">>),
      RemovePrefix(kind) \o <<"a">>, TitleCase(RemovePrefix(kind) \o <<"a">>),
      BogusKey }

ArgMetadata(kind) ==
    UNION { [S -> {<<"v">>}] : S \in { T \in SUBSET ArgKeys(kind) : Cardinality(T) <= MaxArgKeys } }

ContainerArgMetadata == ArgMetadata("container")
ObjectArgMetadata == ArgMetadata("object")

(***************************************************************************)
(* Operations on the handle                                                *)
(***************************************************************************)
NoLast ==
    [op |-> "none", metadata |-> <<>>, data |-> <<>>, verify |-> FALSE,
     resp |-> Unused, cdn |-> Unused, requests |-> <<>>, raised |-> <<>>,
     pre |-> NoHandle, sent |-> <<>>, params |-> <<>>, body |-> <<>>, result |-> <<>>]

NoCallers ==
    [load |-> "idle", update |-> "idle", head |-> <<>>, arg |-> <<>>, sequential |-> TRUE]

EntIdle == handle = NoHandle /\ last = NoLast /\ server = <<>> /\ co = NoCallers

\* record the call and its outcome; a constructor that raises leaves the
\* caller without a (new) handle
Return(op, inputs, r, keep) ==
    /\ handle' = IF keep \/ r.raised = <<>> THEN r.h ELSE handle
    /\ last' = [inputs EXCEPT !.op = op, !.requests = r.requests,
                              !.raised = r.raised, !.pre = handle]

\* the CDN answers only when the second HEAD is issued
CdnAnswers(h, resp, answers) ==
    IF CdnRefresh(h) /\ resp.raised = <<>> THEN answers ELSE {Unused}

\* CloudfilesClient.get_container(name, cdn_enabled)
GetContainer(cdn_enabled, resp, cdn) ==
    /\ handle.kind = "none"
    /\ Return("CloudfilesClient.get_container",
              [NoLast EXCEPT !.data = <<cdn_enabled>>, !.resp = resp, !.cdn = cdn],
              ContainerLoad("CloudfilesClient.get_container", NewContainer(cdn_enabled), resp, cdn),
              FALSE)

\* Container.load()
LoadContainer(resp, cdn) ==
    /\ handle.kind = "container"
    /\ Return("Container.load", [NoLast EXCEPT !.resp = resp, !.cdn = cdn],
              ContainerLoad("Container.load", handle, resp, cdn), TRUE)

\* Container.enable_cdn(ttl)
DoEnableCdn(ttl, resp) ==
    /\ handle.kind = "container"
    /\ Return("Container.enable_cdn", [NoLast EXCEPT !.data = <<ttl>>, !.resp = resp],
              EnableCdn(handle, ttl, resp), TRUE)

\* Container.disable_cdn()
DoDisableCdn(resp) ==
    /\ handle.kind = "container"
    /\ Return("Container.disable_cdn", [NoLast EXCEPT !.resp = resp],
              DisableCdn(handle, resp), TRUE)

\* CloudfilesClient(...): the constructor ends with load(); the load() of
\* the constructor is not decorated a second time
CreateClient(resp) ==
    /\ handle.kind = "none"
    /\ Return("CloudfilesClient.__init__", [NoLast EXCEPT !.resp = resp],
              ClientLoad(NewClient, resp), FALSE)

\* CloudfilesClient.load()
LoadClient(resp) ==
    /\ handle.kind = "client"
    /\ Return("CloudfilesClient.load", [NoLast EXCEPT !.resp = resp],
              ClientLoad(handle, resp), TRUE)

\* CloudfilesClient.set_temp_url_key(key)
DoSetTempUrlKey(key, resp) ==
    /\ handle.kind = "client"
    /\ Return("CloudfilesClient.set_temp_url_key",
              [NoLast EXCEPT !.data = key, !.resp = resp],
              SetTempUrlKey(handle, key, resp), TRUE)

\* a DELETE: CloudfilesClient.delete_container(name), Container.delete()
\* and Container.delete_object(name)
Delete(op, h, resp) ==
    IF resp.raised # <<>>
    THEN Outcome(h, SiteOutcome(Plain(op), resp.raised[1]), <<"DELETE">>)
    ELSE Outcome(h, <<>>, <<"DELETE">>)

\* CloudfilesClient.delete_container(name): needs no handle
DoDeleteContainer(resp) ==
    Return("CloudfilesClient.delete_container", [NoLast EXCEPT !.resp = resp],
           Delete("CloudfilesClient.delete_container", handle, resp), TRUE)

\* Container.delete() and Container.delete_object(name)
DoDelete(op, resp) ==
    /\ handle.kind = "container"
    /\ Return(op, [NoLast EXCEPT !.resp = resp], Delete(op, handle, resp), TRUE)

\* Container.get_object(name)
GetObject(resp) ==
    /\ handle.kind = "none"
    /\ Return("Container.get_object", [NoLast EXCEPT !.resp = resp],
              ObjectLoad("Container.get_object", NewStorageObject(TRUE, <<>>), resp), FALSE)

\* StorageObject(container, name, delete_at_timestamp=...): no request
CreateStorageObject(delete_at_timestamp) ==
    /\ handle.kind = "none"
    /\ Return("StorageObject.__init__", NoLast,
              Outcome(NewStorageObject(FALSE, delete_at_timestamp), <<>>, <<>>), FALSE)

\* the parameters of StorageObject.__init__, and the keywords
\* Container.create_object passes to it
StorageObjectParams ==
    {"container", "name", "exists", "content_type", "metadata", "delete_at_timestamp"}
CreateObjectKeywords ==
    {"content_type", "metadata", "cors", "delete_at_timestamp", "exists"}

\* Container.create_object(name, content_type, metadata, cors,
\* delete_at_timestamp): the call of the constructor, which Python refuses
\* with a TypeError when given a keyword that is no parameter
CreateObject(h, content_type, delete_at_timestamp) ==
    IF CreateObjectKeywords \subseteq StorageObjectParams
    THEN Outcome([NewStorageObject(FALSE, delete_at_timestamp) EXCEPT
                     !.content_type = IF content_type = <<>> THEN OctetStream
                                      ELSE content_type],
                 <<>>, <<>>)
    ELSE Outcome(h, <<ToError("Container.create_object",
                        OtherError("TypeError",
                            "__init__() got an unexpected keyword argument 'cors'"))>>,
                 <<>>)

DoCreateObject(content_type, delete_at_timestamp) ==
    /\ handle.kind = "none"
    /\ Return("Container.create_object", [NoLast EXCEPT !.data = delete_at_timestamp],
              CreateObject(handle, content_type, delete_at_timestamp), FALSE)

\* StorageObject.load()
LoadObject(resp) ==
    /\ handle.kind = "object"
    /\ Return("StorageObject.load", [NoLast EXCEPT !.resp = resp],
              ObjectLoad("StorageObject.load", handle, resp), TRUE)

\* Container.update_metadata(metadata) / StorageObject.update_metadata(metadata)
UpdateOp(kind) ==
    IF kind = "container" THEN "Container.update_metadata"
    ELSE "StorageObject.update_metadata"

DoUpdateMetadata(kind, metadata, order, resp) ==
    /\ handle.kind = kind
    /\ Return(UpdateOp(kind), [NoLast EXCEPT !.metadata = metadata, !.resp = resp],
              UpdateMetadata(UpdateOp(kind), handle, metadata, order, resp), TRUE)

\* StorageObject.write(data, verify=verify)
DoWrite(data, verify, resp) ==
    /\ handle.kind = "object"
    /\ Return("StorageObject.write",
              [NoLast EXCEPT !.data = data, !.verify = verify, !.resp = resp],
              Write(handle, data, verify, resp), TRUE)

(***************************************************************************)
(* Two callers sharing one Container, one in load() and one in             *)
(* update_metadata(), each at "idle", "responded" (its request was         *)
(* answered, the cache not yet written), "done" or "failed".  The backend  *)
(* keeps the metadata under lower-case names: a POST upserts every         *)
(* x-container-meta-K header and deletes K for every                       *)
(* x-remove-container-meta-K header.                                       *)
(***************************************************************************)
ServerPost(meta, headers) ==
    LET lowered == { Lower(k) : k \in DOMAIN headers }
        removed == { SubSeq(k, 1, 2) \o SubSeq(k, 10, Len(k)) :
                        k \in { l \in lowered : StartsWith(l, RemoveMarker) } }
        set == { l \in lowered : ~StartsWith(l, RemoveMarker) } \ removed
        value(l) == headers[CHOOSE k \in DOMAIN headers : Lower(k) = l]
    IN  [k \in ((DOMAIN meta) \ removed) \cup set |->
            IF k \in set THEN value(k) ELSE meta[k]]

\* whether the calls still ran one after the other once a request is issued:
\* not when the other caller is between its request and its cache write
StaysSequential(other) == IF other = "responded" THEN FALSE ELSE co.sequential

\* load(): the HEAD is answered with the backend's metadata of this moment
LoadRequest ==
    /\ handle.kind = "container"
    /\ co.load = "idle"
    /\ co' = [co EXCEPT !.load = "responded", !.head = ContainerHead(server),
                        !.sequential = StaysSequential(co.update)]
    /\ UNCHANGED <<handle, last, server>>

\* load(): the HEAD fails and load() raises
LoadRequestFails ==
    /\ handle.kind = "container"
    /\ co.load = "idle"
    /\ co' = [co EXCEPT !.load = "failed"]
    /\ UNCHANGED <<handle, last, server>>

\* load(): self.metadata = {} and the header loop; cdn_enabled is false
LoadWrite ==
    /\ co.load = "responded"
    /\ handle' = ContainerHeaders(handle, co.head)
    /\ co' = [co EXCEPT !.load = "done"]
    /\ UNCHANGED <<last, server>>

\* update_metadata(metadata): validation, then the POST, which the backend
\* applies
UpdateRequest(metadata) ==
    /\ handle.kind = "container"
    /\ co.update = "idle"
    /\ IF ValidMetadata("container", metadata)
       THEN /\ server' = ServerPost(server, metadata)
            /\ co' = [co EXCEPT !.update = "responded", !.arg = metadata,
                                !.sequential = StaysSequential(co.load)]
       ELSE /\ co' = [co EXCEPT !.update = "failed"]
            /\ UNCHANGED server
    /\ UNCHANGED <<handle, last>>

\* update_metadata(metadata): the POST fails and update_metadata() raises
UpdateRequestFails(metadata) ==
    /\ handle.kind = "container"
    /\ co.update = "idle"
    /\ ValidMetadata("container", metadata)
    /\ co' = [co EXCEPT !.update = "failed"]
    /\ UNCHANGED <<handle, last, server>>

\* update_metadata(metadata): the `#update metadata` loop
UpdateWrite(order) ==
    /\ co.update = "responded"
    /\ handle' = [handle EXCEPT !.metadata = UpdateItems(handle.metadata, co.arg, order)]
    /\ co' = [co EXCEPT !.update = "done"]
    /\ UNCHANGED <<last, server>>

\* Container.enable_quota(max_bytes, max_object_count)
DoEnableQuota(max_bytes, max_object_count, resp) ==
    /\ handle.kind = "container"
    /\ Return("Container.enable_quota",
              [NoLast EXCEPT !.data = <<max_bytes, max_object_count>>, !.resp = resp,
                             !.sent = QuotaHeaders(max_bytes, max_object_count)],
              EnableQuota(handle, max_bytes, max_object_count, resp), TRUE)

\* Container.disable_quota()
DoDisableQuota(resp) ==
    /\ handle.kind = "container"
    /\ Return("Container.disable_quota",
              [NoLast EXCEPT !.resp = resp, !.sent = DisableQuotaHeaders],
              DisableQuota(handle, resp), TRUE)

\* the backend applies the metadata headers of a POST or PUT it answers
\* with success, and nothing of a request that fails or is not issued
Applied(headers) ==
    IF last'.requests # <<>> /\ last'.resp.raised = <<>>
    THEN ServerPost(server, headers) ELSE server

\* Container.extract_archive(archive_path, type)
DoExtractArchive(archive_path, type, opened, resp, body) ==
    /\ handle.kind = "container"
    /\ LET r == ExtractArchive(handle, archive_path, type, opened, resp, body)
       IN  Return("Container.extract_archive",
                  [NoLast EXCEPT !.data = <<archive_path, type>>, !.resp = resp,
                                 !.body = IF r.requests # <<>> /\ resp.raised = <<>>
                                          THEN <<body>> ELSE <<>>,
                                 !.params = r.params, !.result = r.result],
                  r, TRUE)

\* StorageObject.read(size=size, offset=offset)
DoRead(size, offset, resp) ==
    /\ handle.kind = "object"
    /\ Return("StorageObject.read",
              [NoLast EXCEPT !.data = <<size, offset>>, !.resp = resp,
                             !.sent = RangeHeaders(size, offset)],
              Read(handle, size, offset, resp), TRUE)

\* StorageObject.chunks(size=size, offset=offset): the call returns the
\* generator; nothing of the body has run
DoChunks(size, offset) ==
    /\ handle.kind = "object"
    /\ Return("StorageObject.chunks", [NoLast EXCEPT !.data = <<size, offset>>],
              Outcome(handle, <<>>, <<>>), TRUE)

\* the first next() of the generator chunks() returned
ChunksNext(resp) ==
    /\ handle.kind = "object"
    /\ last.op = "StorageObject.chunks"
    /\ Return("StorageObject.chunks.next",
              [NoLast EXCEPT !.data = last.data, !.resp = resp,
                             !.sent = RangeHeaders(last.data[1], last.data[2])],
              ChunksBody(handle, last.data[1], last.data[2], resp), TRUE)

\* StorageObject.delete_at(timestamp)
DoDeleteAt(timestamp, resp) ==
    /\ handle.kind = "object"
    /\ Return("StorageObject.delete_at", [NoLast EXCEPT !.data = timestamp, !.resp = resp],
              DeleteAt(handle, timestamp, resp), TRUE)

(***************************************************************************)
(* Specifications                                                          *)
(***************************************************************************)
ErrInit == ErrIdle /\ AuthIdle /\ ListIdle /\ DelIdle /\ EntIdle

ErrNext ==
    \/ \E site \in RequestSites, e \in Raisable : ErrCall(site, e) /\ UNCHANGED exceptErr
    \/ \E site \in RequestSites : ErrCreate(site) /\ UNCHANGED exceptErr
    \/ \E e \in Raisable : ErrIterate(e) /\ UNCHANGED exceptErr
    \/ ErrUnwind /\ UNCHANGED exceptErr
    \/ ErrReach /\ UNCHANGED exceptErr
    \/ ErrDone /\ UNCHANGED exceptErr

SpecErr == ErrInit /\ [][ErrNext]_vars

AuthInit ==
    /\ ErrIdle /\ ListIdle /\ DelIdle /\ EntIdle
    /\ api_key \in BOOLEAN
    /\ password \in BOOLEAN
    /\ token = 0
    /\ catalog = 0
    /\ user = 0
    /\ auth_log = <<>>

AuthNext ==
    \E force \in BOOLEAN, resp \in AuthResponses :
        Authenticate(force, resp) /\ UNCHANGED exceptAuth

SpecAuth == AuthInit /\ [][AuthNext]_vars

\* list_all_objects(batch_size=list_batch) was called on a container of
\* list_n objects: the generator exists, marker = None, nothing has run
ListInit ==
    /\ ErrIdle /\ AuthIdle /\ DelIdle /\ EntIdle
    /\ list_n \in 0..MaxObjects
    /\ list_batch \in 1..MaxBatch
    /\ list_pc = "request"
    /\ list_marker = 0
    /\ list_objs = <<>>
    /\ list_i = 0
    /\ list_out = <<>>
    /\ list_calls = <<>>

ListNext ==
    \/ ListRequest /\ UNCHANGED exceptList
    \/ ListFail /\ UNCHANGED exceptList
    \/ ListYield /\ UNCHANGED exceptList
    \/ ListBatchEnd /\ UNCHANGED exceptList

SpecList == ListInit /\ [][ListNext]_vars

\* the consumer keeps iterating
SpecListFair == ListInit /\ [][ListNext]_vars /\ WF_vars(ListNext)

\* delete_all_objects(batch_size=del_batch) was called on a container of
\* del_n objects
DelInit ==
    /\ ErrIdle /\ AuthIdle /\ ListIdle /\ EntIdle
    /\ del_n \in 0..MaxObjects
    /\ del_batch \in 1..MaxBatch
    /\ del_exact \in BOOLEAN
    /\ del_pc = "list"
    /\ del_names = 1..del_n
    /\ del_listed = <<>>
    /\ del_lists = <<>>
    /\ del_calls = <<>>

DelNext ==
    \/ DelList /\ UNCHANGED exceptDel
    \/ DelDelete /\ UNCHANGED exceptDel
    \/ DelFail /\ UNCHANGED exceptDel
    \/ DelCheck /\ UNCHANGED exceptDel

SpecDel == DelInit /\ [][DelNext]_vars

\* the call runs: a blocking loop in one thread
SpecDelFair == DelInit /\ [][DelNext]_vars /\ WF_vars(DelNext)

\* what the HEADs and the POST of the metadata operations may answer
ContainerAnswers ==
    { Ok(ContainerHead(meta)) : meta \in ServerMetadata("container") }
        \cup { Failed(e) : e \in EntityErrors }

CdnResponses == { Ok(CdnHead(enabled)) : enabled \in BOOLEAN } \cup { Failed(e) : e \in WriteErrors }

\* what the HEADs of load answer in the CDN specification
PlainHeadAnswers == {Ok(ContainerHead(<<>>))} \cup { Failed(e) : e \in EntityErrors }

CdnHeadAnswers == { Ok(CdnHead(enabled)) : enabled \in BOOLEAN } \cup { Failed(e) : e \in EntityErrors }

\* what the CDN answers to the PUT of enable_cdn and of disable_cdn
EnableCdnAnswers ==
    { Ok(<<>>),
      Ok(<<<<TitleCase(XCdnUri), <<"h","t","t","p",":","/","/","n","e","w">>>>,
           <<TitleCase(XTtl), FormatInt(72)>>>>) }
        \cup { Failed(e) : e \in WriteErrors }

DisableCdnAnswers == {Ok(<<>>)} \cup { Failed(e) : e \in WriteErrors }

ObjectAnswers ==
    { Ok(ObjectHead(<<1>>, <<>>, meta)) : meta \in ServerMetadata("object") }
        \cup { Failed(e) : e \in EntityErrors }

\* the POST answers only when the request is issued
UpdateAnswers(kind, metadata) ==
    IF ValidMetadata(kind, metadata)
    THEN {Ok(<<>>)} \cup { Failed(e) : e \in WriteErrors }
    ELSE {Unused}

\* no handle yet: the caller gets one, reloads it and updates its metadata
MetaInit == ErrIdle /\ AuthIdle /\ ListIdle /\ DelIdle /\ EntIdle

MetaNext ==
    \/ \E cdn_enabled \in BOOLEAN, resp \in ContainerAnswers :
         \E cdn \in CdnAnswers(NewContainer(cdn_enabled), resp, CdnResponses) :
            GetContainer(cdn_enabled, resp, cdn) /\ UNCHANGED exceptEnt
    \/ \E resp \in ContainerAnswers :
         \E cdn \in CdnAnswers(handle, resp, CdnResponses) :
            LoadContainer(resp, cdn) /\ UNCHANGED exceptEnt
    \/ \E resp \in ObjectAnswers : GetObject(resp) /\ UNCHANGED exceptEnt
    \/ \E resp \in ObjectAnswers : LoadObject(resp) /\ UNCHANGED exceptEnt
    \/ \E kind \in {"container", "object"} :
         \E metadata \in IF kind = "container" THEN ContainerArgMetadata ELSE ObjectArgMetadata :
            \E order \in Orders(DOMAIN metadata), resp \in UpdateAnswers(kind, metadata) :
               DoUpdateMetadata(kind, metadata, order, resp) /\ UNCHANGED exceptEnt

SpecMeta == MetaInit /\ [][MetaNext]_vars

\* what the account HEAD answers: the counts and the account metadata the
\* backend holds
AccountMetadata ==
    UNION { [S -> {<<"s">>}] : S \in SUBSET {TempUrlKey, AccountMetaPrefix \o <<"a">>} }

AccountHead(meta) ==
    <<<<TitleCase(XAccountObjectCount), FormatInt(5)>>,
      <<TitleCase(XAccountBytesUsed), FormatInt(40)>>,
      <<TitleCase(XAccountContainerCount), FormatInt(2)>>>> \o MetaHeaders(meta)

AccountAnswers ==
    { Ok(AccountHead(meta)) : meta \in AccountMetadata } \cup { Failed(e) : e \in EntityErrors }

SetKeyAnswers == {Ok(<<>>)} \cup { Failed(e) : e \in WriteErrors }

\* no client yet: the caller makes a CloudfilesClient, reloads it and sets
\* its temp url key
AccountInit == ErrIdle /\ AuthIdle /\ ListIdle /\ DelIdle /\ EntIdle

AccountNext ==
    \/ \E resp \in AccountAnswers : CreateClient(resp) /\ UNCHANGED exceptEnt
    \/ \E resp \in AccountAnswers : LoadClient(resp) /\ UNCHANGED exceptEnt
    \/ \E key \in {<<"k">>, <<"m">>}, resp \in SetKeyAnswers :
         DoSetTempUrlKey(key, resp) /\ UNCHANGED exceptEnt

SpecAccount == AccountInit /\ [][AccountNext]_vars

\* what a DELETE answers
DeleteAnswers == {Ok(<<>>)} \cup { Failed(e) : e \in EntityErrors }

\* no handle yet: the caller gets a Container, reloads it, switches its
\* CDN access on and off, and deletes objects and containers
ContainerInit == ErrIdle /\ AuthIdle /\ ListIdle /\ DelIdle /\ EntIdle

ContainerNext ==
    \/ \E cdn_enabled \in BOOLEAN, resp \in PlainHeadAnswers :
         \E cdn \in CdnAnswers(NewContainer(cdn_enabled), resp, CdnHeadAnswers) :
            GetContainer(cdn_enabled, resp, cdn) /\ UNCHANGED exceptEnt
    \/ \E resp \in PlainHeadAnswers :
         \E cdn \in CdnAnswers(handle, resp, CdnHeadAnswers) :
            LoadContainer(resp, cdn) /\ UNCHANGED exceptEnt
    \/ \E resp \in EnableCdnAnswers : DoEnableCdn(259200, resp) /\ UNCHANGED exceptEnt
    \/ \E resp \in DisableCdnAnswers : DoDisableCdn(resp) /\ UNCHANGED exceptEnt
    \/ \E resp \in DeleteAnswers : DoDeleteContainer(resp) /\ UNCHANGED exceptEnt
    \/ \E resp \in DeleteAnswers : DoDelete("Container.delete", resp) /\ UNCHANGED exceptEnt
    \/ \E resp \in DeleteAnswers :
         DoDelete("Container.delete_object", resp) /\ UNCHANGED exceptEnt

SpecContainer == ContainerInit /\ [][ContainerNext]_vars

\* what the requests of the write operations may answer
StoredAnswers ==
    { Ok(ObjectHead(<<1>>, delete_at, <<>>)) : delete_at \in {<<>>, <<1>>} }
        \cup { Failed(e) : e \in WriteErrors \cup {HttpError(404, ReasonOf(404))} }

DeleteAtAnswers == {Ok(<<>>)} \cup { Failed(e) : e \in WriteErrors }

\* the PUT answers only when the request is issued; its answer may lack an
\* ETag header
PutAnswers(h, data) ==
    IF Truthy(h.delete_at_timestamp) THEN {Unused}
    ELSE { Ok(PutHead(etag)) : etag \in PutEtags(data) }
            \cup {Ok(<<>>)} \cup { Failed(e) : e \in WriteErrors }

\* no handle yet: the caller gets or makes a StorageObject, schedules its
\* deletion, reloads it and writes to it
WriteInit == ErrIdle /\ AuthIdle /\ ListIdle /\ DelIdle /\ EntIdle

WriteNext ==
    \/ \E delete_at_timestamp \in {<<>>, <<1>>} :
         CreateStorageObject(delete_at_timestamp) /\ UNCHANGED exceptEnt
    \/ \E content_type \in {<<>>, TextPlain}, delete_at_timestamp \in {<<>>, <<1>>} :
         DoCreateObject(content_type, delete_at_timestamp) /\ UNCHANGED exceptEnt
    \/ \E resp \in StoredAnswers : GetObject(resp) /\ UNCHANGED exceptEnt
    \/ \E resp \in StoredAnswers : LoadObject(resp) /\ UNCHANGED exceptEnt
    \/ \E timestamp \in {<<>>, <<0>>, <<1>>}, resp \in DeleteAtAnswers :
         DoDeleteAt(timestamp, resp) /\ UNCHANGED exceptEnt
    \/ \E data \in Data, verify \in BOOLEAN :
         \E resp \in PutAnswers(handle, data) :
            DoWrite(data, verify, resp) /\ UNCHANGED exceptEnt

SpecWrite == WriteInit /\ [][WriteNext]_vars

\* the maps the updating caller passes: lower-case keys, at most MaxArgKeys
\* of them, none both set and removed
SharedArgKeys ==
    { ContainerMetaPrefix \o <<"a">>, ContainerMetaPrefix \o <<"b">>,
      ContainerRemovePrefix \o <<"a">>, ContainerRemovePrefix \o <<"b">>, BogusKey }

SharedArgMetadata ==
    UNION { [S -> {<<"v">>}] :
              S \in { T \in SUBSET SharedArgKeys :
                         /\ Cardinality(T) <= MaxArgKeys
                         /\ \A c \in {<<"a">>, <<"b">>} :
                               ~({ContainerMetaPrefix \o c, ContainerRemovePrefix \o c}
                                    \subseteq T) } }

\* a Container loaded some time ago, its cache possibly stale by now, shared
\* by the two callers
SharedInit ==
    /\ ErrIdle /\ AuthIdle /\ ListIdle /\ DelIdle
    /\ last = NoLast
    /\ co = NoCallers
    /\ server \in ServerMetadata("container")
    /\ \E cached \in ServerMetadata("container") :
          handle = [NewContainer(FALSE) EXCEPT !.metadata = cached, !.count = 3, !.size = 12]

SharedNext ==
    \/ LoadRequest /\ UNCHANGED exceptShared
    \/ LoadRequestFails /\ UNCHANGED exceptShared
    \/ LoadWrite /\ UNCHANGED exceptShared
    \/ \E metadata \in SharedArgMetadata : UpdateRequest(metadata) /\ UNCHANGED exceptShared
    \/ \E metadata \in SharedArgMetadata : UpdateRequestFails(metadata) /\ UNCHANGED exceptShared
    \/ \E order \in Orders(DOMAIN co.arg) : UpdateWrite(order) /\ UNCHANGED exceptShared

SpecShared == SharedInit /\ [][SharedNext]_vars

\* no handle yet: the caller gets a Container, a CloudfilesClient or a
\* StorageObject and calls the operations that change it on the backend
MutateInit == ErrIdle /\ AuthIdle /\ ListIdle /\ DelIdle /\ EntIdle

MutateNext ==
    \/ \E cdn_enabled \in BOOLEAN, resp \in PlainHeadAnswers :
         \E cdn \in CdnAnswers(NewContainer(cdn_enabled), resp, CdnHeadAnswers) :
            GetContainer(cdn_enabled, resp, cdn) /\ UNCHANGED exceptEnt
    \/ \E resp \in AccountAnswers : CreateClient(resp) /\ UNCHANGED exceptEnt
    \/ \E delete_at_timestamp \in {<<>>, <<1>>} :
         CreateStorageObject(delete_at_timestamp) /\ UNCHANGED exceptEnt
    \/ \E metadata \in SharedArgMetadata :
         \E order \in Orders(DOMAIN metadata), resp \in UpdateAnswers("container", metadata) :
            DoUpdateMetadata("container", metadata, order, resp) /\ UNCHANGED exceptEnt
    \/ \E resp \in EnableCdnAnswers : DoEnableCdn(259200, resp) /\ UNCHANGED exceptEnt
    \/ \E resp \in DisableCdnAnswers : DoDisableCdn(resp) /\ UNCHANGED exceptEnt
    \/ \E key \in {<<"k">>, <<"m">>}, resp \in SetKeyAnswers :
         DoSetTempUrlKey(key, resp) /\ UNCHANGED exceptEnt
    \/ \E timestamp \in {<<>>, <<0>>, <<1>>}, resp \in DeleteAtAnswers :
         DoDeleteAt(timestamp, resp) /\ UNCHANGED exceptEnt

SpecMutate == MutateInit /\ [][MutateNext]_vars

\* what a HEAD on the container answers when this caller is the backend's
\* only writer, and what the other requests answer
ServerHeadAnswers == {Ok(ContainerHead(server))} \cup { Failed(e) : e \in WriteErrors }

QuotaAnswers == {Ok(<<>>)} \cup { Failed(e) : e \in WriteErrors }

\* quotas a caller asks for
Quotas == {<<>>, <<0>>, <<1>>}

\* a backend holding some metadata and no handle yet: the caller gets the
\* Container, reloads it, updates its metadata and sets and lifts quotas
QuotaInit ==
    /\ ErrIdle /\ AuthIdle /\ ListIdle /\ DelIdle
    /\ handle = NoHandle /\ last = NoLast /\ co = NoCallers
    /\ server \in ServerMetadata("container")

QuotaNext ==
    \/ \E resp \in ServerHeadAnswers :
         GetContainer(FALSE, resp, Unused) /\ UNCHANGED <<server, co, exceptShared>>
    \/ \E resp \in ServerHeadAnswers :
         LoadContainer(resp, Unused) /\ UNCHANGED <<server, co, exceptShared>>
    \/ \E metadata \in SharedArgMetadata :
         \E order \in Orders(DOMAIN metadata), resp \in UpdateAnswers("container", metadata) :
            /\ DoUpdateMetadata("container", metadata, order, resp)
            /\ server' = Applied(metadata)
            /\ UNCHANGED <<co, exceptShared>>
    \/ \E max_bytes \in Quotas, max_object_count \in Quotas, resp \in QuotaAnswers :
         /\ DoEnableQuota(max_bytes, max_object_count, resp)
         /\ server' = Applied(QuotaHeaders(max_bytes, max_object_count))
         /\ UNCHANGED <<co, exceptShared>>
    \/ \E resp \in QuotaAnswers :
         /\ DoDisableQuota(resp)
         /\ server' = Applied(DisableQuotaHeaders)
         /\ UNCHANGED <<co, exceptShared>>

SpecQuota == QuotaInit /\ [][QuotaNext]_vars

\* the archives a caller extracts, and the bodies the bulk PUT answers with
ArchivePaths ==
    { <<"a",".","t","a","r">>, <<"A",".","T","A","R">>, <<"a",".","t","a","r",".","g","z">>, <<"a",".","T","a","r",".","B","z">>, <<"a",".","z","i","p">>, <<"t","a","r">>, <<"a",".","t","a","r",".","b","z","2">> }

ArchiveTypes == { <<>>, <<ArchiveSuffixes[2]>>, <<<<".","z","i","p">>>> }

ArchiveBodies ==
    { [json |-> FALSE, value |-> <<>>],
      [json |-> TRUE, value |-> <<>>],
      [json |-> TRUE, value |-> [k \in {"Errors"} |-> <<>>]],
      [json |-> TRUE, value |-> [k \in {"Errors"} |-> <<<<"a.txt", "400 Bad Request">>>>]] }

ArchiveAnswers == {Ok(<<>>)} \cup { Failed(e) : e \in WriteErrors }

\* no handle yet: the caller gets a Container and extracts archives to it
ArchiveInit == ErrIdle /\ AuthIdle /\ ListIdle /\ DelIdle /\ EntIdle

ArchiveNext ==
    \/ \E resp \in PlainHeadAnswers : GetContainer(FALSE, resp, Unused) /\ UNCHANGED exceptEnt
    \/ \E archive_path \in ArchivePaths, type \in ArchiveTypes, opened \in BOOLEAN,
          resp \in ArchiveAnswers, body \in ArchiveBodies :
         DoExtractArchive(archive_path, type, opened, resp, body) /\ UNCHANGED exceptEnt

SpecArchive == ArchiveInit /\ [][ArchiveNext]_vars

\* the sizes and offsets a caller reads with, and what the GET answers
MaxOffset == 5
Sizes == {<<>>, <<0>>, <<1>>, <<10>>}
Offsets == (0 - MaxOffset)..MaxOffset
GetAnswers == {Ok(<<>>)} \cup { Failed(e) : e \in WriteErrors }

\* no handle yet: the caller makes a StorageObject and reads from it
ReadInit == ErrIdle /\ AuthIdle /\ ListIdle /\ DelIdle /\ EntIdle

ReadNext ==
    \/ CreateStorageObject(<<>>) /\ UNCHANGED exceptEnt
    \/ \E size \in Sizes, offset \in Offsets, resp \in GetAnswers :
         DoRead(size, offset, resp) /\ UNCHANGED exceptEnt
    \/ \E size \in Sizes, offset \in Offsets : DoChunks(size, offset) /\ UNCHANGED exceptEnt
    \/ \E resp \in GetAnswers : ChunksNext(resp) /\ UNCHANGED exceptEnt

SpecRead == ReadInit /\ [][ReadNext]_vars

(***************************************************************************)
(* Claims                                                                  *)
(***************************************************************************)

\* C1 (as amended): once a non-empty token id is cached, every
\* authenticate(force=false) returns {X-Auth-Token: token.id} and issues no
\* credential request; so the first two calls on a new client, both without
\* force and the first caching a token, issue exactly one request in total;
\* every authenticate(force=true) on a client with an api_key or a password
\* configured issues exactly one credential request whatever token is
\* cached, and none when neither is configured.
C1_CachedTokenNoRequest ==
    /\ \A i \in 1..Len(auth_log) :
          (~auth_log[i].force /\ auth_log[i].pre # 0) =>
             /\ auth_log[i].requests = 0
             /\ auth_log[i].raised = <<>>
             /\ auth_log[i].header = auth_log[i].pre
    /\ (/\ Len(auth_log) >= 2
        /\ ~auth_log[1].force /\ ~auth_log[2].force
        /\ auth_log[2].pre # 0)
          => auth_log[1].requests + auth_log[2].requests = 1
    /\ \A i \in 1..Len(auth_log) :
          auth_log[i].force =>
             auth_log[i].requests = (IF api_key \/ password THEN 1 ELSE 0)

\* C1 witness: a forced call on a client holding a token issued a request
\* and, after it, an unforced call returned the new token without one
C1_Witness ==
    /\ Len(auth_log) = 3
    /\ auth_log[2].force /\ auth_log[2].pre # 0 /\ auth_log[2].requests = 1
    /\ ~auth_log[3].force /\ auth_log[3].requests = 0
    /\ auth_log[3].header = token /\ token # auth_log[2].pre

\* C1 as stated: ... every authenticate(force=true) issues exactly one
\* credential request regardless of the cached token.
C1_AsStated ==
    /\ \A i \in 1..Len(auth_log) :
          (~auth_log[i].force /\ auth_log[i].pre # 0) =>
             /\ auth_log[i].requests = 0
             /\ auth_log[i].raised = <<>>
             /\ auth_log[i].header = auth_log[i].pre
    /\ (/\ Len(auth_log) >= 2
        /\ ~auth_log[1].force /\ ~auth_log[2].force
        /\ auth_log[2].pre # 0)
          => auth_log[1].requests + auth_log[2].requests = 1
    /\ \A i \in 1..Len(auth_log) :
          auth_log[i].force => auth_log[i].requests = 1

\* C2: an exception that has left a decorated function: an HttpError has
\* become a ResponseError with the same status, reason, response_data and
\* response_headers; another non-domain exception a RackspaceError whose
\* cause is the original; a RackspaceError (or subclass) is unchanged, also
\* after a second, enclosing decorated function.
C2_ErrorMapping ==
    (err_hops >= 1) =>
        LET e == err_thrown[1]
            m == err_exc[1]
        IN  /\ e.cls = "HttpError" =>
                /\ m.cls = "ResponseError"
                /\ m.status = e.status
                /\ m.reason = e.reason
                /\ m.response_data = e.response_data
                /\ m.response_headers = e.response_headers
            /\ (e.cls # "HttpError" /\ e.cls \notin RackspaceErrorClasses) =>
                /\ m.cls = "RackspaceError"
                /\ m.cause = <<e>>
            /\ e.cls \in RackspaceErrorClasses => m = e

\* C2 witness: a NoSuchContainer raised inside load has passed the frames of
\* load and of get_container unchanged
C2_Witness ==
    /\ err_hops = 2
    /\ err_site.op = "CloudfilesClient.get_container"
    /\ err_thrown[1].cls = "NoSuchContainer"
    /\ err_exc = err_thrown

\* C3: whatever a request raises reaches the caller of a public operation,
\* the consumer of a lazy sequence included, only as a RackspaceError
\* (ResponseError and the other subclasses included).
C3_NoRawException ==
    (err_pc = "raised") => IsRackspaceError(err_exc[1])

IsPrefix(p, q) == Len(p) <= Len(q) /\ SubSeq(q, 1, Len(p)) = p

\* C5: over a listing that does not change, list_all_objects yields the
\* entries in listing order without repeating or skipping one, and when it
\* ends normally it has yielded every entry, for every number of objects
\* and every batch_size >= 1.
C5_YieldsEveryEntryOnce ==
    /\ IsPrefix(list_out, Listing(list_n))
    /\ list_pc = "done" => list_out = Listing(list_n)

\* C5 witness: five objects, batch_size 2, all five yielded in order
C5_Witness ==
    /\ list_pc = "done"
    /\ list_n = 5 /\ list_batch = 2
    /\ list_out = <<[name |-> 1], [name |-> 2], [name |-> 3], [name |-> 4], [name |-> 5]>>

\* the calls list_all_objects has issued follow the paging protocol
PagingProtocol ==
    /\ \A k \in 1..Len(list_calls) :
          /\ list_calls[k].limit = list_batch
          /\ k = 1 => list_calls[k].marker = 0
          /\ k > 1 => /\ list_calls[k].marker = list_calls[k-1].last
                      /\ list_calls[k-1].count = list_batch
    /\ list_pc = "done" =>
          /\ list_calls[Len(list_calls)].count < list_batch
          /\ Len(list_calls) = (list_n \div list_batch) + 1

\* C6: the first list_objects call carries no marker; each later call
\* carries the name of the last entry of the batch before it and follows a
\* full batch; the sequence ends after the first short batch, with no call
\* after it, having issued floor(n/batch_size)+1 calls; and the iteration
\* ends.
C6_PagingProtocol ==
    /\ []PagingProtocol
    /\ [][list_pc = "done" => (list_pc' = "done" /\ list_calls' = list_calls)]_vars
    /\ <>(list_pc \in {"done", "failed"})

\* C6 witness: four objects, batch_size 2: two full batches, then the empty
\* one, asked for with marker 4
C6_Witness ==
    /\ list_pc = "done"
    /\ list_n = 4 /\ list_batch = 2
    /\ Len(list_calls) = 3
    /\ list_calls[2].marker = 2
    /\ list_calls[3].marker = 4 /\ list_calls[3].count = 0

\* the bulk deletes and listings of delete_all_objects against a backend
\* that removes exactly the names it is given
DeleteProtocol ==
    /\ \A k \in 1..Len(del_calls) :
          /\ Len(del_calls[k]) > 0
          /\ Len(del_calls[k]) = Min(del_batch, del_n - (k - 1) * del_batch)
    /\ \A k \in 1..(Len(del_lists) - 1) : del_lists[k] = del_batch
    /\ del_pc = "done" =>
          /\ Len(del_calls) = (del_n + del_batch - 1) \div del_batch
          /\ del_lists[Len(del_lists)] < del_batch
          /\ del_names = {}

\* C7: against a backend of n objects whose bulk delete removes exactly the
\* names it is given, delete_all_objects(batch_size=b) issues ceil(n/b) bulk
\* deletes of sizes b, ..., b and the remainder, none with an empty list,
\* stops after the first listing shorter than b, ends, and leaves the
\* container empty.
C7_DeleteAllObjects ==
    /\ [](del_exact => DeleteProtocol)
    /\ [][(del_exact /\ del_pc = "done") =>
            (del_pc' = "done" /\ del_calls' = del_calls /\ del_lists' = del_lists)]_vars
    /\ <>(~del_exact \/ del_pc \in {"done", "failed"})

\* C7 witness: three objects, batch_size 2: bulk deletes of 2 names, then 1
C7_Witness ==
    /\ del_exact
    /\ del_pc = "done"
    /\ del_n = 3 /\ del_batch = 2
    /\ del_calls = << <<1, 2>>, <<3>> >>
    /\ del_names = {}

UpdateOps == {"Container.update_metadata", "StorageObject.update_metadata"}

\* C4: get_container(name) / Container.load() whose plain container HEAD
\* answers 404 fails with NoSuchContainer, get_object(name) /
\* StorageObject.load() whose object HEAD answers 404 fails with
\* NoSuchObject, and any other non-2xx status of that HEAD reaches the
\* caller as a plain ResponseError carrying that status.
C4_AbsentEntity ==
    /\ last.op \in {"CloudfilesClient.get_container", "Container.load",
                    "Container.get_object", "StorageObject.load"}
    /\ last.resp.raised # <<>>
    /\ last.resp.raised[1].cls = "HttpError"
    => /\ last.raised # <<>>
       /\ IF last.resp.raised[1].status = 404
          THEN last.raised[1].cls =
                  IF last.op \in {"CloudfilesClient.get_container", "Container.load"}
                  THEN "NoSuchContainer" ELSE "NoSuchObject"
          ELSE /\ last.raised[1].cls = "ResponseError"
               /\ last.raised[1].status = last.resp.raised[1].status

\* C4 witness: a reload of a container handle met a 404 on the plain HEAD
\* and the caller got NoSuchContainer
C4_Witness ==
    /\ last.op = "Container.load"
    /\ last.pre.kind = "container"
    /\ last.resp.raised # <<>>
    /\ last.resp.raised[1].cls = "HttpError"
    /\ last.resp.raised[1].status = 404
    /\ last.raised # <<>>
    /\ last.raised[1].cls = "NoSuchContainer"

\* C8: update_metadata of a Container (resp. StorageObject) given a map in
\* which at least one key starts with neither of the two prefixes of its
\* kind (header names compared without regard to letter case) fails with a
\* RackspaceError, issues no request and leaves the cached metadata as it
\* was, also when other keys of the map are valid.
C8_InvalidKeyRejected ==
    /\ last.op \in UpdateOps
    /\ \E key \in DOMAIN last.metadata :
          /\ ~StartsWith(Lower(key), MetaPrefix(last.pre.kind))
          /\ ~StartsWith(Lower(key), RemovePrefix(last.pre.kind))
    => /\ last.raised # <<>>
       /\ last.raised[1].cls = "RackspaceError"
       /\ last.requests = <<>>
       /\ handle.metadata = last.pre.metadata

\* C8 witness: a map with a valid and an invalid key was given to a
\* container holding cached metadata, and the call raised
C8_Witness ==
    /\ last.op = "Container.update_metadata"
    /\ BogusKey \in DOMAIN last.metadata
    /\ (ContainerMetaPrefix \o <<"a">>) \in DOMAIN last.metadata
    /\ last.pre.metadata # <<>>
    /\ last.raised # <<>>

\* the effect on the cache that C9 states; strict: for every key of the
\* argument, else only for the keys whose counterpart (the set form of a
\* remove key, the remove form of a set key) is not in the argument too
CacheEffect(strict) ==
    last.op \in UpdateOps /\ last.raised = <<>> =>
    LET meta == MetaPrefix(last.pre.kind)
        remove == RemovePrefix(last.pre.kind)
        arg == last.metadata
        cached == handle.metadata
        before == last.pre.metadata
        SetForm(key) == meta \o SubSeq(key, Len(remove) + 1, Len(key))
        RemoveForm(key) == remove \o SubSeq(key, Len(meta) + 1, Len(key))
        named == (DOMAIN arg) \cup
                 { SubSeq(key, 1, 2) \o SubSeq(key, Len(RemoveMarker) + 1, Len(key)) :
                      key \in { k \in DOMAIN arg : StartsWith(Lower(k), RemoveMarker) } }
    IN  /\ \A key \in DOMAIN arg :
              StartsWith(key, remove) /\ (strict \/ SetForm(key) \notin DOMAIN arg)
              => SetForm(key) \notin DOMAIN cached
        /\ \A key \in DOMAIN arg :
              StartsWith(key, meta) /\ (strict \/ RemoveForm(key) \notin DOMAIN arg)
              => key \in DOMAIN cached /\ cached[key] = arg[key]
        /\ \A k \in ((DOMAIN before) \cup (DOMAIN cached)) \ named :
              /\ k \in DOMAIN before
              /\ k \in DOMAIN cached
              /\ cached[k] = before[k]

\* C9 (as amended): after a successful update_metadata, for every key
\* 'x-remove-<kind>-meta-K' of the argument whose 'x-<kind>-meta-K' is not
\* in the argument too, the entry 'x-<kind>-meta-K' is absent from the
\* cache; for every key 'x-<kind>-meta-K' whose remove form is not in the
\* argument too, the cache maps it to the given value; every cached entry
\* the argument does not name is unchanged.
C9_CacheEffect == CacheEffect(FALSE)

\* C9 witness: a successful update removed an entry loaded from the
\* backend and left another entry alone
C9_Witness ==
    /\ last.op = "Container.update_metadata"
    /\ last.raised = <<>>
    /\ (ContainerRemovePrefix \o <<"a">>) \in DOMAIN last.metadata
    /\ (ContainerMetaPrefix \o <<"a">>) \in DOMAIN last.pre.metadata
    /\ (ContainerMetaPrefix \o <<"a">>) \notin DOMAIN handle.metadata
    /\ (ContainerMetaPrefix \o <<"b">>) \in DOMAIN handle.metadata

\* C9 as stated: the same for every key of the argument, also when the
\* argument both sets and removes K
C9_AsStated == CacheEffect(TRUE)

\* C10: a write(data, verify=true) whose PUT is answered with an ETag that
\* is not the hex digest of the bytes sent fails with an error (a
\* RackspaceError caused by the "Bad hash" RuntimeError) and leaves the
\* handle's etag and content_length as before the call; answered with the
\* digest of the bytes sent (hex digits compared without regard to case)
\* it succeeds, etag is the returned ETag and content_length the number of
\* bytes sent.
C10_VerifiedWrite ==
    /\ last.op = "StorageObject.write"
    /\ last.verify
    /\ last.requests = <<"PUT">>
    /\ last.resp.raised = <<>>
    /\ HasHeader(LowerNames(last.resp.headers), ETagKey)
    => LET value == HeaderValue(LowerNames(last.resp.headers), ETagKey, <<>>)
       IN  IF Lower(value) = Digest(last.data)
           THEN /\ last.raised = <<>>
                /\ handle.etag = value
                /\ handle.content_length = Len(last.data)
           ELSE /\ last.raised # <<>>
                /\ last.raised[1].cls = "RackspaceError"
                /\ last.raised[1].cause # <<>>
                /\ last.raised[1].cause[1].cls = "RuntimeError"
                /\ handle.etag = last.pre.etag
                /\ handle.content_length = last.pre.content_length

\* C10 witness: a verified write to a handle that held an etag and a
\* different length was answered with a wrong ETag and raised
C10_Witness ==
    /\ last.op = "StorageObject.write"
    /\ last.verify
    /\ last.requests = <<"PUT">>
    /\ last.resp.raised = <<>>
    /\ HasHeader(LowerNames(last.resp.headers), ETagKey)
    /\ Lower(HeaderValue(LowerNames(last.resp.headers), ETagKey, <<>>)) # Digest(last.data)
    /\ last.raised # <<>>
    /\ last.pre.etag # <<>>
    /\ last.pre.content_length # Len(last.data)

\* C11: Container.create_object returns a StorageObject handle for every
\* name and every combination of its optional arguments, issues no request,
\* and the handle is not marked as existing.
C11_CreateObjectReturnsHandle ==
    last.op = "Container.create_object" =>
        /\ last.raised = <<>>
        /\ last.requests = <<>>
        /\ handle.kind = "object"
        /\ ~handle.exists

\* C12: in Container.load(), reached directly or through get_container,
\* when cdn_enabled is true at entry and the plain HEAD succeeds, the plain
\* HEAD is issued first and the CDN HEAD second, and a failure of the CDN
\* HEAD makes the call return normally with cdn_enabled false; when
\* cdn_enabled is false at entry, or the plain HEAD fails, only the plain
\* HEAD is issued.
C12_CdnRefresh ==
    last.op \in {"CloudfilesClient.get_container", "Container.load"} =>
        LET entry == IF last.op = "Container.load" THEN last.pre.cdn_enabled
                     ELSE last.data[1]
        IN  IF entry /\ last.resp.raised = <<>>
            THEN /\ last.requests = <<"HEAD", "CDN HEAD">>
                 /\ last.cdn.raised # <<>> =>
                       /\ last.raised = <<>>
                       /\ handle.kind = "container"
                       /\ ~handle.cdn_enabled
            ELSE last.requests = <<"HEAD">>

\* C12 witness: get_container(name, cdn_enabled=True) whose CDN HEAD
\* answered 404 returned a handle with cdn_enabled false
C12_Witness ==
    /\ last.op = "CloudfilesClient.get_container"
    /\ last.data = <<TRUE>>
    /\ last.cdn.raised # <<>>
    /\ last.cdn.raised[1].cls = "HttpError"
    /\ last.cdn.raised[1].status = 404
    /\ last.raised = <<>>
    /\ handle.kind = "container"
    /\ ~handle.cdn_enabled

\* C13: whenever a Container's cdn_enabled is false, its properties
\* cdn_uri, cdn_ssl_uri and cdn_streaming_uri read None, whatever is cached
\* in _cdn_uri, _cdn_ssl_uri and _cdn_streaming_uri.
C13_NoCdnUriWhenDisabled ==
    (handle.kind = "container" /\ ~handle.cdn_enabled) =>
        /\ CdnUri(handle) = <<>>
        /\ CdnSslUri(handle) = <<>>
        /\ CdnStreamingUri(handle) = <<>>

\* C13 witness: disable_cdn succeeded on a container that has URIs cached
C13_Witness ==
    /\ last.op = "Container.disable_cdn"
    /\ last.raised = <<>>
    /\ handle.kind = "container"
    /\ ~handle.cdn_enabled
    /\ handle.cdn_uri # <<>>
    /\ handle.cdn_ssl_uri # <<>>
    /\ handle.cdn_streaming_uri # <<>>

\* the DELETE of the last call was answered with this status
DeleteAnswered(op, status) ==
    /\ last.op = op
    /\ last.resp.raised # <<>>
    /\ last.resp.raised[1].cls = "HttpError"
    /\ last.resp.raised[1].status = status

LastRaised(cls) == last.raised # <<>> /\ last.raised[1].cls = cls

\* C14: CloudfilesClient.delete_container(name) fails with
\* ContainerNotEmpty when the DELETE returns 409 and with NoSuchContainer
\* when it returns 404.
C14_DeleteContainerMapping ==
    /\ DeleteAnswered("CloudfilesClient.delete_container", 409)
          => LastRaised("ContainerNotEmpty")
    /\ DeleteAnswered("CloudfilesClient.delete_container", 404)
          => LastRaised("NoSuchContainer")

\* C15: Container.delete() fails with NoSuchContainer when the DELETE
\* returns 404, with ContainerNotEmpty when it returns 409, and returns
\* normally when the DELETE succeeds.
C15_ContainerDelete ==
    /\ DeleteAnswered("Container.delete", 404) => LastRaised("NoSuchContainer")
    /\ DeleteAnswered("Container.delete", 409) => LastRaised("ContainerNotEmpty")
    /\ (last.op = "Container.delete" /\ last.resp.raised = <<>>) => last.raised = <<>>

\* C15 witness: delete() on a container with objects, the DELETE answering
\* 409, raised ContainerNotEmpty
C15_Witness ==
    /\ DeleteAnswered("Container.delete", 409)
    /\ LastRaised("ContainerNotEmpty")
    /\ last.requests = <<"DELETE">>

\* C16: delete_object(name) fails with NoSuchObject on 404 and with a
\* ResponseError on every other non-2xx status, delete() fails with a
\* ResponseError on every non-2xx status other than 404 and 409, and each
\* returns normally only when the DELETE returned a 2xx status.
C16_FailedDeleteReported ==
    /\ \A status \in ErrorStatuses :
          DeleteAnswered("Container.delete_object", status) =>
             LastRaised(IF status = 404 THEN "NoSuchObject" ELSE "ResponseError")
    /\ \A status \in ErrorStatuses \ {404, 409} :
          DeleteAnswered("Container.delete", status) => LastRaised("ResponseError")
    /\ (last.op \in {"Container.delete_object", "Container.delete"} /\ last.raised = <<>>)
          => last.resp.raised = <<>>

\* C17: after a successful CloudfilesClient.load() the cached account
\* metadata holds exactly the x-account-meta-* headers of that HEAD
\* response, keys lower-cased: an entry cached earlier and absent from the
\* response is gone.
C17_LoadReplacesSnapshot ==
    (last.op = "CloudfilesClient.load" /\ last.raised = <<>>) =>
        handle.metadata =
            MetadataFromHeaders(LowerNames(last.resp.headers), AccountMetaPrefix)

\* C18: an authenticate call that issues a credential request whose
\* response body has no (or an empty) `access` object raises an error and
\* leaves catalog, user and token as they were before the call.
C18_NoAccessSurfaces ==
    \A i \in 1..Len(auth_log) :
        (auth_log[i].requests = 1 /\ auth_log[i].answer = "no_access") =>
            /\ auth_log[i].raised # <<>>
            /\ auth_log[i].after = auth_log[i].before

\* C19: an authenticate call that returns normally returns the current
\* token id, that id is not empty, and every later unforced call returns the
\* same id as long as no forced call came in between.
C19_ReturnedToken ==
    \A i \in 1..Len(auth_log) :
        auth_log[i].raised = <<>> =>
            /\ auth_log[i].header = auth_log[i].after[3]
            /\ auth_log[i].header # 0
            /\ \A j \in (i + 1)..Len(auth_log) :
                  (\A k \in (i + 1)..j : ~auth_log[k].force) =>
                      /\ auth_log[j].raised = <<>>
                      /\ auth_log[j].header = auth_log[i].header

C22_RangeHeader ==
    (last.op \in {"StorageObject.read", "StorageObject.chunks.next"}) =>
        LET size == last.data[1]
            offset == last.data[2]
            given == size # <<>> /\ size[1] # 0
            range(v) == last.sent = [k \in {"Range"} |-> v]
        IN  /\ last.requests = <<"GET">>
            /\ given => range(BytesEq \o FormatD(offset) \o <<"-">>
                                     \o FormatD(offset + size[1] - 1))
            /\ (size = <<>> /\ offset > 0) => range(BytesEq \o FormatD(offset) \o <<"-">>)
            /\ (size = <<>> /\ offset < 0) => range(BytesEq \o <<"-">> \o FormatInt(0 - offset))
            /\ (size = <<>> /\ offset = 0) => last.sent = <<>>
            /\ (size = <<10>> /\ offset = 5) =>
                  range(<<"b", "y", "t", "e", "s", "=", "5", "-", "1", "4">>)

\* read(size=10, offset=5) was answered
C22_Witness ==
    /\ last.op = "StorageObject.read"
    /\ last.data = <<<<10>>, 5>>
    /\ last.raised = <<>>
    /\ last.requests = <<"GET">>
    /\ last.sent["Range"] = <<"b", "y", "t", "e", "s", "=", "5", "-", "1", "4">>

\* C23: extract_archive(path) without a type sends as type the suffix among
\* '.tar', '.tar.gz', '.tar.bz' that the lower-cased path ends with; a path
\* ending with none of them raises a RackspaceError caused by a ValueError
\* before any request; a 2xx response whose body has a non-empty 'Errors'
\* raises ExtractArchiveError carrying those errors, and the call returns the
\* body only when 'Errors' is empty or absent.
C23_ExtractArchive ==
    (last.op = "Container.extract_archive" /\ last.data[2] = <<>>) =>
        LET path == Lower(last.data[1])
            matching == { suffix \in {ArchiveSuffixes[i] : i \in 1..Len(ArchiveSuffixes)} :
                             EndsWith(path, suffix) }
        IN  /\ matching = {} =>
                 /\ last.requests = <<>>
                 /\ last.raised # <<>>
                 /\ last.raised[1].cls = "RackspaceError"
                 /\ last.raised[1].cause[1].cls = "ValueError"
            /\ last.requests # <<>> =>
                 /\ last.requests = <<"PUT">>
                 /\ matching = {last.params["extract-archive"]}
            /\ (last.body # <<>> /\ last.body[1].json) =>
                 LET errors == Get(last.body[1].value, "Errors")
                 IN  IF errors # <<>>
                     THEN /\ last.raised # <<>>
                          /\ last.raised[1].cls = "ExtractArchiveError"
                          /\ last.raised[1].message[2] = errors
                          /\ last.result = <<>>
                     ELSE /\ last.raised = <<>>
                          /\ last.result = <<last.body[1].value>>
            /\ last.raised = <<>> =>
                 /\ last.body # <<>>
                 /\ Get(last.body[1].value, "Errors") = <<>>

\* a mixed-case '.Tar.Bz' path was sent as '.tar.bz' and the body's Errors
\* came back as ExtractArchiveError
C23_Witness ==
    /\ last.op = "Container.extract_archive"
    /\ last.data[2] = <<>>
    /\ last.data[1] # Lower(last.data[1])
    /\ last.requests = <<"PUT">>
    /\ last.params["extract-archive"] = ArchiveSuffixes[3]
    /\ last.raised # <<>>
    /\ last.raised[1].cls = "ExtractArchiveError"

\* C24: when load() and update_metadata() on a shared Container both
\* succeed one after the other, in either order, the cached metadata equals
\* the backend's; when they overlap there is an interleaving after which the
\* cache lacks an entry the backend accepted (C24_Witness).
C24_SequentialCoherent ==
    (co.load = "done" /\ co.update = "done" /\ co.sequential) =>
        handle.metadata = server

\* both calls succeeded, overlapping, and an entry of the update that the
\* backend holds is missing from the cache
C24_Witness ==
    /\ co.load = "done" /\ co.update = "done"
    /\ ~co.sequential
    /\ handle.metadata # server
    /\ \E k \in DOMAIN co.arg :
          /\ k \in DOMAIN server
          /\ server[k] = co.arg[k]
          /\ k \notin DOMAIN handle.metadata

\* C25: every key of a Container's (StorageObject's) cached metadata is
\* lower-case and starts with 'x-container-meta-' ('x-object-meta-'), none
\* starts with 'x-remove-', and after a successful update_metadata a key
\* removed in any letter case is gone from the cache unless the same map
\* also sets it.
C25_CachedKeysNormalised ==
    handle.kind \in {"container", "object"} =>
        /\ \A k \in DOMAIN handle.metadata :
              /\ k = Lower(k)
              /\ StartsWith(k, MetaPrefix(handle.kind))
              /\ ~StartsWith(k, RemoveMarker)
        /\ (last.op = UpdateOp(handle.kind) /\ last.raised = <<>>) =>
              \A key \in DOMAIN last.metadata :
                  StartsWith(Lower(key), RemoveMarker) =>
                     LET entry == SubSeq(Lower(key), 1, 2) \o SubSeq(Lower(key), 10, Len(key))
                     IN  \/ entry \notin DOMAIN handle.metadata
                         \/ \E other \in DOMAIN last.metadata : Lower(other) = entry

\* C26: when the request of update_metadata, enable_cdn, disable_cdn,
\* set_temp_url_key or delete_at raises, the cached metadata, cdn_enabled,
\* cdn_ttl, the CDN URIs and delete_at_timestamp are what they were before
\* the call.
C26_FailedRequestKeepsCache ==
    (/\ last.op \in {"Container.update_metadata", "Container.enable_cdn",
                     "Container.disable_cdn", "CloudfilesClient.set_temp_url_key",
                     "StorageObject.delete_at"}
     /\ last.requests # <<>>
     /\ last.resp.raised # <<>>) =>
        /\ last.raised # <<>>
        /\ handle.metadata = last.pre.metadata
        /\ handle.cdn_enabled = last.pre.cdn_enabled
        /\ handle.cdn_ttl = last.pre.cdn_ttl
        /\ handle.cdn_uri = last.pre.cdn_uri
        /\ handle.cdn_ssl_uri = last.pre.cdn_ssl_uri
        /\ handle.cdn_streaming_uri = last.pre.cdn_streaming_uri
        /\ handle.delete_at_timestamp = last.pre.delete_at_timestamp

\* enable_cdn failed on a Container whose CDN access is off
C26_Witness ==
    /\ last.op = "Container.enable_cdn"
    /\ last.requests = <<"CDN PUT">>
    /\ last.raised # <<>>
    /\ ~last.pre.cdn_enabled
    /\ ~handle.cdn_enabled

\* C27: for a single caller that is the backend's only writer, after the
\* load() that filled the cache and any sequence of update_metadata,
\* enable_quota and disable_quota calls with lower-case keys, the cached
\* metadata equals the metadata the backend holds, which is what a fresh
\* load() would cache.
C27_SequentialCoherence ==
    handle.kind = "container" =>
        handle.metadata = ContainerHeaders(handle, ContainerHead(server)).metadata

\* C28: from a state in which a Container's cdn_enabled is false, a load()
\* issues the plain HEAD only and no step makes cdn_enabled true except an
\* enable_cdn() that returns normally.
C28_DisabledIsAbsorbing ==
    [][(handle.kind = "container" /\ ~handle.cdn_enabled) =>
          /\ last'.op = "Container.load" => last'.requests = <<"HEAD">>
          /\ (handle'.kind = "container" /\ handle'.cdn_enabled) =>
                /\ last'.op = "Container.enable_cdn"
                /\ last'.raised = <<>>]_vars

\* a Container that had CDN access once (its CDN URI is cached) and whose
\* cdn_enabled was false was reloaded with one HEAD and stayed disabled
C28_Witness ==
    /\ last.op = "Container.load"
    /\ last.pre.kind = "container"
    /\ ~last.pre.cdn_enabled
    /\ last.pre.cdn_uri # <<>>
    /\ last.raised = <<>>
    /\ last.requests = <<"HEAD">>
    /\ ~handle.cdn_enabled

\* the bulk delete of this round answered 2xx and removed none of the names
\* it was given
Stalled ==
    /\ del_pc = "check"
    /\ HasNames(del_listed)
    /\ Range(del_listed) \subseteq del_names

\* C29: delete_all_objects ends (returns or raises) unless some bulk delete
\* answers success and leaves every object it was given in place: against
\* every backend of finitely many objects whose bulk deletes each remove at
\* least one of the listed objects the call ends.
C29_EndsWithProgress == <>(del_pc \in {"done", "failed"} \/ Stalled)

\* a backend that removed only part of what it was given, three objects and
\* batch_size 2: the call ended after three bulk deletes
C29_Witness ==
    /\ ~del_exact
    /\ del_pc = "done"
    /\ del_n = 3 /\ del_batch = 2
    /\ del_calls = << <<1, 2>>, <<2, 3>>, <<3>> >>

\* C29 as stated: delete_all_objects ends on every backend, also one whose
\* bulk delete answers success and leaves the listed objects in place.
C29_AsStated == <>(del_pc \in {"done", "failed"})

\* C30: a write() on an object whose delete_at_timestamp is set (by the
\* constructor, by load() or by delete_at()) issues the PUT, one request
\* of method PUT, as a write on an object without a scheduled delete does
C30_WriteWithDeleteAt ==
    /\ last.op = "StorageObject.write"
    /\ Truthy(last.pre.delete_at_timestamp)
    => last.requests = <<"PUT">>

====
